---- MODULE Spec2Model ----
(***************************************************************************)
(* Model of the analytics engine of MathPulse AI (backend/analytics.py):   *)
(* the TTL caches, the rule-based / trained-model risk classifier and its  *)
(* training, the adaptive quiz selector, the competency aggregator, the    *)
(* topic recommendation engine, the 3PL response model, the difficulty     *)
(* calibration and the student summary, the last two as coroutines that    *)
(* suspend where they call the external store, and the class insights      *)
(* built from the summaries.                                               *)
(*                                                                         *)
(* Each component has its own specification (SpecCache, SpecRisk, ...)     *)
(* over the one set of variables; the variables a component does not use   *)
(* stay at their initial value.                                            *)
(***************************************************************************)
EXTENDS Integers, Sequences, FiniteSets, TLC

VARIABLES
    now,                \* time.time(), in clock ticks
    ttl,                \* the ttl every lookup passes (IRT_DIFFICULTY_CACHE_TTL), in ticks
    competency_cache,   \* _competency_cache: key -> [ts, val]
    class_stats_cache,  \* _class_stats_cache
    difficulty_cache,   \* _difficulty_cache
    risk_model_cache,   \* _risk_model_cache: "risk_model" -> model object
    disk,               \* the artifact at RISK_MODEL_PATH
    HAS_JOBLIB,         \* whether joblib could be imported
    HAS_SHAP,           \* whether shap could be imported
    request,            \* the request the handlers are called with
    written,            \* history: the last _cache_set of each key since the last clear
    firestore,          \* the external store: quiz histories, engagement, difficulty params
    tasks,              \* the requests in flight: where each one is and its locals
    observed,           \* history: what the external store held when the clock last moved
    op,                 \* the last operation called
    ret                 \* what it returned

vars == <<now, ttl, competency_cache, class_stats_cache, difficulty_cache,
          risk_model_cache, disk, HAS_JOBLIB, HAS_SHAP, request, written,
          firestore, tasks, observed, op, ret>>

\* Python's None
None == "None"

\* no Firestore connection: _get_firestore_db() returns None
NoStore == [db |-> FALSE]

\* ---------------------------------------------------------------- bounds

MaxTime == 2
MaxTTL == 2

Values == {"v1", "v2"}
Namespaces == {"competency", "class_stats", "difficulty"}

KeysOf(ns) ==
    CASE ns = "competency" -> {"summary_s1", "summary_s2"}
      [] ns = "class_stats" -> {"class_t1_c1"}
      [] ns = "difficulty" -> {"q1"}

EmptyCache == << >>

\* ------------------------------------------------------------ TTL cache

\* del cache[key]
DictDel(cache, key) == [k \in DOMAIN cache \ {key} |-> cache[k]]

\* cache[key] = entry
DictPut(cache, key, entry) ==
    [k \in DOMAIN cache \cup {key} |-> IF k = key THEN entry ELSE cache[k]]

\* _cache_get evicting every expired entry of the cache, not the one looked up
cache_get_sweeping(cache, key, t_ttl, t) ==
    LET Fresh == {k \in DOMAIN cache : t - cache[k].ts < t_ttl}
    IN [val |-> IF key \in Fresh THEN cache[key].val ELSE None,
        cache |-> [k \in Fresh |-> cache[k]]]

\* _cache_get with the expiry test the wrong way round at the boundary
cache_get_inclusive(cache, key, t_ttl, t) ==
    IF key \in DOMAIN cache
    THEN IF t - cache[key].ts <= t_ttl
         THEN [val |-> cache[key].val, cache |-> cache]
         ELSE [val |-> None, cache |-> DictDel(cache, key)]
    ELSE [val |-> None, cache |-> cache]

\* _cache_get(cache, key, ttl) called at time t: the value returned and the
\* cache it leaves
cache_get(cache, key, t_ttl, t) ==
    IF key \in DOMAIN cache
    THEN IF t - cache[key].ts < t_ttl
         THEN [val |-> cache[key].val, cache |-> cache]
         ELSE [val |-> None, cache |-> DictDel(cache, key)]
    ELSE [val |-> None, cache |-> cache]

\* _cache_set keeping the timestamp of the entry it overwrites
cache_set_keep_ts(cache, key, value, t) ==
    DictPut(cache, key,
            [ts |-> IF key \in DOMAIN cache THEN cache[key].ts ELSE t, val |-> value])

\* _cache_set(cache, key, value) called at time t
cache_set(cache, key, value, t) == DictPut(cache, key, [ts |-> t, val |-> value])

CacheOf(ns) ==
    CASE ns = "competency" -> competency_cache
      [] ns = "class_stats" -> class_stats_cache
      [] ns = "difficulty" -> difficulty_cache

\* the namespace ns becomes c, the other namespaces stay
StoreCache(ns, c) ==
    /\ competency_cache' = IF ns = "competency" THEN c ELSE competency_cache
    /\ class_stats_cache' = IF ns = "class_stats" THEN c ELSE class_stats_cache
    /\ difficulty_cache' = IF ns = "difficulty" THEN c ELSE difficulty_cache

\* ------------------------------------------------------------ risk model

\* the model objects joblib.load can return
Artifacts == {"model_a", "model_b"}

\* _load_risk_model(): the model returned and the model cache it leaves;
\* has_joblib is HAS_JOBLIB, load_fails is joblib.load raising
load_risk_model(has_joblib, rcache, artifact, load_fails) ==
    IF ~has_joblib
    THEN [model |-> None, rcache |-> rcache]
    ELSE IF "risk_model" \in DOMAIN rcache
    THEN [model |-> rcache["risk_model"], rcache |-> rcache]
    ELSE IF artifact # None /\ ~load_fails
    THEN [model |-> artifact, rcache |-> DictPut(rcache, "risk_model", artifact)]
    ELSE [model |-> None, rcache |-> rcache]

\* ------------------------------------------------------- cache operations

Tick ==
    /\ now < MaxTime
    /\ now' = now + 1
    /\ op' = [kind |-> "tick"]
    /\ ret' = None
    /\ UNCHANGED <<ttl, competency_cache, class_stats_cache, difficulty_cache,
                   risk_model_cache, disk, HAS_JOBLIB, HAS_SHAP, request, written,
                   firestore, tasks, observed>>

CacheSet(ns, k, v) ==
    /\ StoreCache(ns, cache_set(CacheOf(ns), k, v, now))
    /\ written' = DictPut(written, <<ns, k>>, [ts |-> now, val |-> v])
    /\ op' = [kind |-> "set", ns |-> ns, key |-> k,
              replaced |-> IF k \in DOMAIN CacheOf(ns)
                           THEN <<CacheOf(ns)[k].ts>> ELSE << >>]
    /\ ret' = None
    /\ UNCHANGED <<now, ttl, risk_model_cache, disk, HAS_JOBLIB, HAS_SHAP, request, firestore, tasks, observed>>

CacheGet(ns, k) ==
    LET r == cache_get(CacheOf(ns), k, ttl, now) IN
    /\ StoreCache(ns, r.cache)
    /\ op' = [kind |-> "get", ns |-> ns, key |-> k]
    /\ ret' = r.val
    /\ UNCHANGED <<now, ttl, risk_model_cache, disk, HAS_JOBLIB, HAS_SHAP, request, written,
                   firestore, tasks, observed>>

LoadRiskModel ==
    LET r == load_risk_model(HAS_JOBLIB, risk_model_cache, disk, FALSE) IN
    /\ risk_model_cache' = r.rcache
    /\ op' = [kind |-> "load"]
    /\ ret' = r.model
    /\ UNCHANGED <<now, ttl, competency_cache, class_stats_cache, difficulty_cache,
                   disk, HAS_JOBLIB, HAS_SHAP, request, written, firestore, tasks, observed>>

\* refresh_all_caches(): what it reports
refresh_report == [status |-> "caches_cleared", cachedItems |-> 0]

\* refresh_all_caches() forgetting the difficulty namespace
refresh_cleared_partial(c) == IF c = difficulty_cache THEN c ELSE EmptyCache

\* refresh_all_caches(): what a cache holds after .clear()
refresh_cleared(c) == EmptyCache

\* the number of entries the four caches hold
CachedItems ==
    Cardinality(DOMAIN competency_cache) + Cardinality(DOMAIN class_stats_cache)
    + Cardinality(DOMAIN difficulty_cache) + Cardinality(DOMAIN risk_model_cache)

RefreshAllCaches ==
    /\ competency_cache' = refresh_cleared(competency_cache)
    /\ class_stats_cache' = refresh_cleared(class_stats_cache)
    /\ difficulty_cache' = refresh_cleared(difficulty_cache)
    /\ risk_model_cache' = refresh_cleared(risk_model_cache)
    /\ written' = << >>
    /\ op' = [kind |-> "refresh", held |-> CachedItems]
    /\ ret' = refresh_report
    /\ UNCHANGED <<now, ttl, disk, HAS_JOBLIB, HAS_SHAP, request, firestore, tasks, observed>>

InitCache ==
    /\ now = 0
    /\ ttl \in 1..MaxTTL
    /\ competency_cache = EmptyCache
    /\ class_stats_cache = EmptyCache
    /\ difficulty_cache = EmptyCache
    /\ risk_model_cache = EmptyCache
    /\ disk = "model_a"
    /\ HAS_JOBLIB = TRUE
    /\ HAS_SHAP = TRUE
    /\ request = None
    /\ written = << >>
    /\ firestore = NoStore
    /\ tasks = << >>
    /\ observed = << >>
    /\ op = [kind |-> "init"]
    /\ ret = None

NextCache ==
    \/ Tick
    \/ \E ns \in Namespaces : \E k \in KeysOf(ns) : \E v \in Values : CacheSet(ns, k, v)
    \/ \E ns \in Namespaces : \E k \in KeysOf(ns) : CacheGet(ns, k)
    \/ LoadRiskModel
    \/ RefreshAllCaches

SpecCache == InitCache /\ [][NextCache]_vars

\* the slot the last _cache_get or _cache_set was about
OpSlot == <<op.ns, op.key>>

\* C1: a _cache_get(k, ttl) at time t returns the value v of the last
\* _cache_set(k, v), made at t0, whenever t - t0 < ttl and no set or clear came
\* between; when t - t0 >= ttl it returns None and k is no longer in the cache.
C1_CacheRoundTrip ==
    (op.kind = "get" /\ OpSlot \in DOMAIN written) =>
        IF now - written[OpSlot].ts < ttl
        THEN ret = written[OpSlot].val
        ELSE ret = None /\ op.key \notin DOMAIN CacheOf(op.ns)

\* a lookup, some time after the set but within the ttl, that returned the value
C1_Witness ==
    /\ op.kind = "get"
    /\ OpSlot \in DOMAIN written
    /\ now > written[OpSlot].ts
    /\ now - written[OpSlot].ts < ttl
    /\ ret = written[OpSlot].val

\* C2: after refresh_all_caches() the four caches are empty and the call
\* reported cachedItems = 0 and status "caches_cleared"; from then on a cache
\* holds only keys set since, and a lookup of any other key returns None.
C2_RefreshClearsAll ==
    /\ op.kind = "refresh" =>
          /\ ret.status = "caches_cleared"
          /\ ret.cachedItems = 0
          /\ risk_model_cache = EmptyCache
          /\ written = << >>
    /\ \A ns \in Namespaces : \A k \in KeysOf(ns) :
          <<ns, k>> \notin DOMAIN written => k \notin DOMAIN CacheOf(ns)
    /\ (op.kind = "get" /\ OpSlot \notin DOMAIN written) => ret = None

\* a refresh of caches that held entries in more than one namespace
C2_Witness ==
    /\ op.kind = "refresh"
    /\ op.held >= 3
    /\ CachedItems = 0

\* the times a lookup can still be made at
LaterTimes == now..(MaxTime + MaxTTL)

\* C16: a _cache_set on a key that already has an entry, made at t1 < t2 = now,
\* replaces value and timestamp: a lookup at any later time t returns the new
\* value while t - t2 < ttl, even when t - t1 >= ttl, and None once
\* t - t2 >= ttl.
C16_OverwriteRestartsTtl ==
    (op.kind = "set" /\ op.replaced # << >> /\ op.replaced[1] < now) =>
        /\ CacheOf(op.ns)[op.key] = [ts |-> now, val |-> written[OpSlot].val]
        /\ \A t \in LaterTimes :
              cache_get(CacheOf(op.ns), op.key, ttl, t).val
                  = IF t - now < ttl THEN written[OpSlot].val ELSE None

\* an entry overwritten when it had already expired: a lookup now returns the
\* new value
C16_Witness ==
    /\ op.kind = "set"
    /\ op.replaced # << >>
    /\ now - op.replaced[1] >= ttl
    /\ cache_get(CacheOf(op.ns), op.key, ttl, now).val = written[OpSlot].val

\* the cache of every namespace, and the model cache
AllCaches == <<competency_cache, class_stats_cache, difficulty_cache, risk_model_cache>>

\* C17: a _cache_get changes the cache only by removing the expired entry of
\* the key it looked up: an absent key or an unexpired one leaves every cache as
\* it was, an expired one is removed and every other key of the namespace and
\* every other namespace stay, expired or not.
C17_GetFrame ==
    [][op'.kind = "get" =>
          LET c == CacheOf(op'.ns)
              k == op'.key
              expired == k \in DOMAIN c /\ now - c[k].ts >= ttl
              left == [competency |-> competency_cache', class_stats |-> class_stats_cache',
                       difficulty |-> difficulty_cache']
          IN IF expired
             THEN /\ left[op'.ns] = DictDel(c, k)
                  /\ \A ns \in Namespaces \ {op'.ns} : left[ns] = CacheOf(ns)
                  /\ risk_model_cache' = risk_model_cache
             ELSE AllCaches' = AllCaches]_vars

\* a lookup that evicted its expired key while another expired entry of the
\* same namespace stayed
C17_Witness ==
    /\ op.kind = "get"
    /\ ret = None
    /\ OpSlot \in DOMAIN written
    /\ op.key \notin DOMAIN CacheOf(op.ns)
    /\ \E k \in DOMAIN CacheOf(op.ns) : now - CacheOf(op.ns)[k].ts >= ttl

\* ------------------------------------------------------- risk classifier
\* Scores are whole points 0..100; the weighted score is kept in hundredths
\* of a point and probabilities in thousandths.

\* EnhancedRiskRequest: the fields the classifier reads. An Optional field is
\* << >> for None and <<x>> for the value x.
BaseProfiles ==
    {<<80, 75, 90, 85>>, <<0, 0, 0, 0>>, <<100, 100, 100, 100>>, <<70, 70, 70, 70>>,
     <<45, 45, 45, 45>>, <<35, 45, 55, 45>>, <<75, 70, 70, 70>>, <<40, 50, 60, 50>>,
     <<90, 40, 95, 90>>, <<30, 60, 40, 45>>}
Streaks == {<<0>>, <<3>>, <<7>>}
Trends == {<< >>, <<4>>}
Absences == {<<0>>, <<3>>}
Inactivity == {<< >>, <<7>>}

Requests ==
    {[engagementScore |-> p[1], avgQuizScore |-> p[2], attendance |-> p[3],
      assignmentCompletion |-> p[4], streak |-> s, engagementTrend7d |-> t,
      consecutiveAbsences |-> a, daysSinceLastActivity |-> d] :
        p \in BaseProfiles, s \in Streaks, t \in Trends, a \in Absences, d \in Inactivity}

\* (x or 0)
OrZero(x) == IF x = << >> THEN 0 ELSE x[1]

Clamp(lo, hi, x) == IF x < lo THEN lo ELSE IF x > hi THEN hi ELSE x

\* the weighted sum with the quiz and engagement weights exchanged
rule_base_score_swapped(data) ==
    data.engagementScore * 30 + data.avgQuizScore * 25
    + data.attendance * 25 + data.assignmentCompletion * 20

\* _rule_based_risk: the weighted sum of the four base features (hundredths)
rule_base_score(data) ==
    data.engagementScore * 25 + data.avgQuizScore * 30
    + data.attendance * 25 + data.assignmentCompletion * 20

\* _rule_based_risk: the score after penalties, bonuses and the clamp (hundredths)
rule_score(data) ==
    LET s0 == rule_base_score(data)
        s1 == IF OrZero(data.consecutiveAbsences) >= 3 THEN s0 - 1000 ELSE s0
        s2 == IF OrZero(data.daysSinceLastActivity) >= 7 THEN s1 - 1000 ELSE s1
        s3 == IF OrZero(data.streak) = 0 THEN s2 - 500 ELSE s2
        s4 == IF OrZero(data.streak) >= 7 THEN s3 + 500 ELSE s3
        s5 == IF OrZero(data.engagementTrend7d) > 0 THEN s4 + 500 ELSE s4
    IN Clamp(0, 10000, s5)

\* the levels with the higher scores at the higher risk
rule_level_inverted(score) ==
    IF score >= 7000 THEN "High" ELSE IF score >= 4500 THEN "Medium" ELSE "Low"

\* _rule_based_risk: the level of a score
rule_level(score) ==
    IF score >= 7000 THEN "Low" ELSE IF score >= 4500 THEN "Medium" ELSE "High"

\* _rule_based_risk: the fixed probability triple of a level (thousandths)
rule_probs(level) ==
    CASE level = "Low" -> [High |-> 50, Medium |-> 150, Low |-> 800]
      [] level = "Medium" -> [High |-> 150, Medium |-> 550, Low |-> 300]
      [] level = "High" -> [High |-> 700, Medium |-> 200, Low |-> 100]

Max3(a, b, c) == IF a >= b /\ a >= c THEN a ELSE IF b >= c THEN b ELSE c

\* factors[:3]
Take3(seq) == IF Len(seq) <= 3 THEN seq ELSE SubSeq(seq, 1, 3)

\* _rule_based_risk: the threshold checks, in the order they are evaluated
rule_factors(data) ==
    LET f == (IF data.avgQuizScore < 50 THEN <<"avgQuizScore">> ELSE << >>)
             \o (IF data.attendance < 60 THEN <<"attendance">> ELSE << >>)
             \o (IF data.engagementScore < 40 THEN <<"engagementScore">> ELSE << >>)
             \o (IF OrZero(data.consecutiveAbsences) >= 3
                 THEN <<"consecutiveAbsences">> ELSE << >>)
             \o (IF data.assignmentCompletion < 50
                 THEN <<"assignmentCompletion">> ELSE << >>)
    IN IF f = << >> THEN <<"overall">> ELSE f

\* _rule_based_risk(data): the EnhancedRiskPrediction it returns
rule_based_risk(data) ==
    LET level == rule_level(rule_score(data))
        probs == rule_probs(level)
    IN [riskLevel |-> level,
        confidence |-> Max3(probs.High, probs.Medium, probs.Low),
        probabilities |-> probs,
        contributingFactors |-> Take3(rule_factors(data)),
        recommendations |-> <<"rule_based", level>>,
        modelUsed |-> "rule_based"]

\* what model.predict and model.predict_proba answer: the class and the
\* per-class probabilities (thousandths)
ModelOutputs ==
    {[prediction |-> 0, proba |-> <<700, 200, 100>>],
     [prediction |-> 1, proba |-> <<250, 500, 250>>],
     [prediction |-> 2, proba |-> <<100, 100, 800>>]}

label_map(i) == CASE i = 0 -> "High" [] i = 1 -> "Medium" [] i = 2 -> "Low" [] OTHER -> "Medium"

\* how a call of the trained-model path goes: inference raising, the
\* explainer raising, the model having feature_importances_
NoFailure ==
    [predict_throws |-> FALSE, proba_throws |-> FALSE, load_fails |-> FALSE,
     shap_fails |-> FALSE, has_importances |-> TRUE]

Modes ==
    {NoFailure,
     [NoFailure EXCEPT !.predict_throws = TRUE],
     [NoFailure EXCEPT !.proba_throws = TRUE],
     [NoFailure EXCEPT !.load_fails = TRUE],
     [NoFailure EXCEPT !.shap_fails = TRUE],
     [NoFailure EXCEPT !.has_importances = FALSE]}

\* an exception leaving the function
Raised == [raised |-> TRUE]

\* predict_risk_enhanced: the contributing factors of the trained-model path
ml_factors(has_shap, mode) ==
    IF has_shap
    THEN IF mode.shap_fails THEN <<"model_prediction">> ELSE <<"shap_top3">>
    ELSE IF mode.has_importances THEN <<"importance_top3">> ELSE << >>

\* predict_risk_enhanced: the body of the try block; Raised when it raises
ml_predict(has_shap, mode, out) ==
    IF mode.predict_throws \/ mode.proba_throws
    THEN Raised
    ELSE [riskLevel |-> label_map(out.prediction),
          confidence |-> Max3(out.proba[1], out.proba[2], out.proba[3]),
          probabilities |-> [High |-> out.proba[1], Medium |-> out.proba[2],
                             Low |-> out.proba[3]],
          contributingFactors |-> ml_factors(has_shap, mode),
          recommendations |-> <<"ml_model", label_map(out.prediction)>>,
          modelUsed |-> "ml_model"]

\* predict_risk_enhanced with no except clause around the trained-model path
predict_risk_enhanced_uncaught(data, model, has_shap, mode, out) ==
    IF model = None
    THEN rule_based_risk(data)
    ELSE ml_predict(has_shap, mode, out)

\* predict_risk_enhanced(data) once _load_risk_model() returned model
predict_risk_enhanced(data, model, has_shap, mode, out) ==
    IF model = None
    THEN rule_based_risk(data)
    ELSE LET r == ml_predict(has_shap, mode, out)
         IN IF r = Raised THEN rule_based_risk(data) ELSE r

PredictRiskEnhanced(mode, out) ==
    LET l == load_risk_model(HAS_JOBLIB, risk_model_cache, disk, mode.load_fails) IN
    /\ risk_model_cache' = l.rcache
    /\ op' = [kind |-> "predict", mode |-> mode, model |-> l.model]
    /\ ret' = predict_risk_enhanced(request, l.model, HAS_SHAP, mode, out)
    /\ UNCHANGED <<now, ttl, competency_cache, class_stats_cache, difficulty_cache,
                   disk, HAS_JOBLIB, HAS_SHAP, request, written, firestore, tasks, observed>>

\* how many times a run of the model trains
MaxTrainings == 2

\* the artifacts joblib.dump writes, one per training
TrainedArtifacts == <<"trained_1", "trained_2", "trained_3", "trained_4">>

\* how many trainings wrote the artifact on disk and its predecessors
trainings_done(artifact) ==
    IF \E n \in 1..Len(TrainedArtifacts) : TrainedArtifacts[n] = artifact
    THEN CHOOSE n \in 1..Len(TrainedArtifacts) : TrainedArtifacts[n] = artifact
    ELSE 0

\* train_risk_model leaving the model cache as it is
train_cache_kept(rcache) == rcache

\* train_risk_model: _risk_model_cache.clear()
train_cache_cleared(rcache) == EmptyCache

\* train_risk_model(force_retrain): what it returns, the artifact it leaves
\* on disk and the model cache it leaves; fit_fails is the training raising
\* before the artifact is written
train_risk_model(has_joblib, artifact, rcache, force_retrain, fit_fails) ==
    IF ~has_joblib
    THEN [ret |-> Raised, disk |-> artifact, rcache |-> rcache]
    ELSE IF artifact # None /\ ~force_retrain
    THEN [ret |-> [status |-> "model_exists"], disk |-> artifact, rcache |-> rcache]
    ELSE IF fit_fails
    THEN [ret |-> Raised, disk |-> artifact, rcache |-> rcache]
    ELSE [ret |-> [status |-> "trained"],
          disk |-> TrainedArtifacts[trainings_done(artifact) + 1],
          rcache |-> train_cache_cleared(rcache)]

TrainRiskModel(force_retrain, fit_fails) ==
    LET r == train_risk_model(HAS_JOBLIB, disk, risk_model_cache, force_retrain, fit_fails) IN
    /\ trainings_done(disk) < MaxTrainings
    /\ disk' = r.disk
    /\ risk_model_cache' = r.rcache
    /\ op' = [kind |-> "train",
              dropped |-> IF "risk_model" \in DOMAIN risk_model_cache
                          THEN risk_model_cache["risk_model"] ELSE None]
    /\ ret' = r.ret
    /\ UNCHANGED <<now, ttl, competency_cache, class_stats_cache, difficulty_cache,
                   HAS_JOBLIB, HAS_SHAP, request, written, firestore, tasks, observed>>

RuleBasedRisk ==
    /\ op' = [kind |-> "rule_based", score |-> rule_score(request)]
    /\ ret' = rule_based_risk(request)
    /\ UNCHANGED <<now, ttl, competency_cache, class_stats_cache, difficulty_cache,
                   risk_model_cache, disk, HAS_JOBLIB, HAS_SHAP, request, written,
                   firestore, tasks, observed>>

InitRisk ==
    /\ now = 0
    /\ ttl = 1
    /\ competency_cache = EmptyCache
    /\ class_stats_cache = EmptyCache
    /\ difficulty_cache = EmptyCache
    /\ risk_model_cache = EmptyCache
    /\ disk \in {None} \cup Artifacts
    /\ HAS_JOBLIB \in BOOLEAN
    /\ HAS_SHAP \in BOOLEAN
    /\ request \in Requests
    /\ written = << >>
    /\ firestore = NoStore
    /\ tasks = << >>
    /\ observed = << >>
    /\ op = [kind |-> "init"]
    /\ ret = None

NextRisk ==
    \/ \E mode \in Modes : \E out \in ModelOutputs : PredictRiskEnhanced(mode, out)
    \/ RuleBasedRisk
    \/ RefreshAllCaches
    \/ \E force_retrain \in BOOLEAN : \E fit_fails \in BOOLEAN :
          TrainRiskModel(force_retrain, fit_fails)

SpecRisk == InitRisk /\ [][NextRisk]_vars

\* the trained-model path of the last predict_risk_enhanced call failed: no
\* joblib, no artifact, the artifact did not load, or inference raised
TrainedPathFailed ==
    \/ ~HAS_JOBLIB
    \/ disk = None
    \/ op.mode.load_fails /\ risk_model_cache = EmptyCache
    \/ op.mode.predict_throws
    \/ op.mode.proba_throws

\* C3: predict_risk_enhanced never raises, and whenever the trained-model path
\* fails its result is, field for field, what _rule_based_risk returns for the
\* same request, with modelUsed = "rule_based".
C3_FallbackIsRuleBased ==
    op.kind = "predict" =>
        /\ ret # Raised
        /\ TrainedPathFailed =>
              /\ ret = rule_based_risk(request)
              /\ ret.modelUsed = "rule_based"

\* a call in which a loaded model's predict raised
C3_Witness ==
    /\ op.kind = "predict"
    /\ op.model \in Artifacts
    /\ op.mode.predict_throws
    /\ ret.modelUsed = "rule_based"

\* the score of the rule-based scorer as the specification words it (hundredths)
C10_Score(d) ==
    Clamp(0, 10000,
          25 * d.engagementScore + 30 * d.avgQuizScore + 25 * d.attendance
          + 20 * d.assignmentCompletion
          - (IF OrZero(d.consecutiveAbsences) >= 3 THEN 1000 ELSE 0)
          - (IF OrZero(d.daysSinceLastActivity) >= 7 THEN 1000 ELSE 0)
          - (IF OrZero(d.streak) = 0 THEN 500 ELSE 0)
          + (IF OrZero(d.streak) >= 7 THEN 500 ELSE 0)
          + (IF OrZero(d.engagementTrend7d) > 0 THEN 500 ELSE 0))

\* engagement 80, quiz 75, attendance 90, completion 85, no penalty, no bonus
C10_Example ==
    /\ request.engagementScore = 80
    /\ request.avgQuizScore = 75
    /\ request.attendance = 90
    /\ request.assignmentCompletion = 85
    /\ OrZero(request.streak) \in 1..6
    /\ OrZero(request.engagementTrend7d) <= 0
    /\ OrZero(request.consecutiveAbsences) < 3
    /\ OrZero(request.daysSinceLastActivity) < 7

C10_Levels ==
    /\ op.score = C10_Score(request)
    /\ op.score >= 7000 => ret.riskLevel = "Low"
    /\ (op.score >= 4500 /\ op.score < 7000) => ret.riskLevel = "Medium"
    /\ op.score < 4500 => ret.riskLevel = "High"

\* C10 as claimed: the weighted score with penalties, bonuses and clamp, Low
\* from 70, Medium from 45, High below, and the example scoring 80.75, Low.
C10_AsClaimed ==
    op.kind = "rule_based" =>
        /\ C10_Levels
        /\ C10_Example => (op.score = 8075 /\ ret.riskLevel = "Low")

\* C10 as amended: the same, the example scoring 82.0 (20 + 22.5 + 22.5 + 17), Low.
C10_RuleBasedScore ==
    op.kind = "rule_based" =>
        /\ C10_Levels
        /\ C10_Example => (op.score = 8200 /\ ret.riskLevel = "Low")

\* the rule-based scorer called on the example
C10_Witness ==
    /\ op.kind = "rule_based"
    /\ C10_Example
    /\ ret.riskLevel = "Low"

\* C19: a prediction with modelUsed = "ml_model" is made with the artifact most
\* recently persisted, and no prediction is made with a model cached before the
\* last training: train_risk_model with status "trained" leaves the model cache
\* empty, so the next call loads the new artifact.
C19_NoStaleModel ==
    /\ (op.kind = "train" /\ ret # Raised /\ ret.status = "trained") =>
          (risk_model_cache = EmptyCache /\ disk # None)
    /\ "risk_model" \in DOMAIN risk_model_cache => risk_model_cache["risk_model"] = disk
    /\ op.kind = "predict" =>
          /\ op.model \in {None, disk}
          /\ ret.modelUsed = "ml_model" => op.model = disk

\* a training that replaced the artifact while the model of the one before
\* was cached
C19_Witness ==
    /\ op.kind = "train"
    /\ ret # Raised
    /\ ret.status = "trained"
    /\ op.dropped \notin {None, disk}
    /\ risk_model_cache = EmptyCache

\* the trained-model path of the last predict_risk_enhanced call returned
TrainedPathReturned ==
    /\ op.kind = "predict"
    /\ op.model # None
    /\ ~op.mode.predict_throws
    /\ ~op.mode.proba_throws

\* C20: on the trained-model path the contributing factors are the
\* explainer's when it is available and succeeds; when it is absent or fails
\* they are the model's feature-importance ranking if it has one and are left
\* out otherwise; the prediction is returned with modelUsed = "ml_model" and the
\* model's risk level and probabilities.
C20_FactorsFallBack ==
    TrainedPathReturned =>
        /\ ret.modelUsed = "ml_model"
        /\ \E out \in ModelOutputs :
              /\ ret.riskLevel = label_map(out.prediction)
              /\ ret.probabilities = [High |-> out.proba[1], Medium |-> out.proba[2],
                                      Low |-> out.proba[3]]
        /\ ret.contributingFactors =
              IF HAS_SHAP /\ ~op.mode.shap_fails THEN <<"shap_top3">>
              ELSE IF op.mode.has_importances THEN <<"importance_top3">>
              ELSE << >>

\* ------------------------------------------------- adaptive quiz selector
\* theta and the difficulties b are in tenths: theta ranges over -40..40.

\* AdaptiveQuizRequest.numQuestions: Field(ge=1, le=50)
MinQuestions == 1
MaxQuestions == 50

\* the ability estimates _estimate_theta can return (bounds=(-4, 4))
Thetas == -40..40

QuizRequests == [numQuestions : MinQuestions..MaxQuestions, theta : Thetas]

\* _get_competency_level with the bounds of each level taken as low < score <= high
get_competency_level_shifted(num, den) ==
    IF num <= 40 * den THEN "beginner"
    ELSE IF num <= 65 * den THEN "developing"
    ELSE IF num <= 85 * den THEN "proficient"
    ELSE "advanced"

\* _get_competency_level(score) for score = num / den, den > 0
get_competency_level(num, den) ==
    IF 0 <= num /\ num < 40 * den THEN "beginner"
    ELSE IF 40 * den <= num /\ num < 65 * den THEN "developing"
    ELSE IF 65 * den <= num /\ num < 85 * den THEN "proficient"
    ELSE IF 85 * den <= num /\ num < 100 * den THEN "advanced"
    ELSE IF num >= 85 * den THEN "advanced" ELSE "beginner"

\* select_adaptive_quiz: the level of (theta + 4) / 8 * 100
theta_level(theta) == get_competency_level((theta + 40) * 100, 80)

\* select_adaptive_quiz: distributions, in percent
distributions(level) ==
    CASE level = "beginner" -> [easy |-> 70, medium |-> 20, hard |-> 10]
      [] level = "developing" -> [easy |-> 40, medium |-> 40, hard |-> 20]
      [] level = "proficient" -> [easy |-> 20, medium |-> 40, hard |-> 40]
      [] level = "advanced" -> [easy |-> 10, medium |-> 30, hard |-> 60]

\* round(x) for x = num / den exactly: to the nearest integer, a tie to the even one
RoundHalfEven(num, den) ==
    LET q == num \div den
        r == num % den
    IN IF 2 * r > den \/ (2 * r = den /\ q % 2 = 1) THEN q + 1 ELSE q

\* round(n * dist[k]) on binary floating point: the product is exact enough for
\* every n in 1..50 but 45 * 0.70, which is 31.499999999999996 and rounds to 31
py_round_share(n, pct) ==
    IF n = 45 /\ pct = 70 THEN 31 ELSE RoundHalfEven(n * pct, 100)

Max2(a, b) == IF a >= b THEN a ELSE b
Min2(a, b) == IF a <= b THEN a ELSE b

\* select_adaptive_quiz: target_counts
target_counts(n, dist) ==
    LET easy == Max2(1, py_round_share(n, dist.easy))
        medium == Max2(1, py_round_share(n, dist.medium))
    IN [easy |-> easy, medium |-> medium, hard |-> Max2(0, n - easy - medium)]

\* select_adaptive_quiz: the difficulty the i-th question aims at
quiz_target_b(i, theta) ==
    IF i < 2 THEN theta
    ELSE IF i % 3 = 0 THEN theta - 5
    ELSE IF i % 3 = 1 THEN theta
    ELSE theta + 5

\* the label of a difficulty b: easy below -1.0, medium below 1.0, else hard
classify_difficulty(b) ==
    IF b < -10 THEN "easy" ELSE IF b < 10 THEN "medium" ELSE "hard"

\* max(remaining, key=...): the first of easy, medium, hard with the most left
most_remaining(target, counts) ==
    LET e == target.easy - counts.easy
        m == target.medium - counts.medium
        h == target.hard - counts.hard
    IN IF e >= m /\ e >= h THEN "easy" ELSE IF m >= h THEN "medium" ELSE "hard"

\* the quota check left out: the label of b is kept
quiz_label_unchecked(label, target, counts) == label

\* select_adaptive_quiz: the label after the quota check
quiz_label(label, target, counts) ==
    IF counts[label] >= target[label] THEN most_remaining(target, counts) ELSE label

\* select_adaptive_quiz: b after the quota check
quiz_b(b, label, target, counts) ==
    IF counts[label] >= target[label]
    THEN LET l == most_remaining(target, counts)
         IN IF l = "easy" THEN Min2(b, -10)
            ELSE IF l = "hard" THEN Max2(b, 10)
            ELSE b
    ELSE b

RECURSIVE quiz_loop(_, _, _, _, _, _)
\* select_adaptive_quiz: for i in range(n)
quiz_loop(i, n, theta, target, counts, selected) ==
    IF i >= n
    THEN [selectedQuestions |-> selected, difficultyDistribution |-> counts]
    ELSE LET b0 == quiz_target_b(i, theta)
             l0 == classify_difficulty(b0)
             l1 == quiz_label(l0, target, counts)
             b1 == quiz_b(b0, l0, target, counts)
         IN quiz_loop(i + 1, n, theta, target,
                      [counts EXCEPT ![l1] = @ + 1],
                      Append(selected, [estimatedDifficulty |-> b1,
                                        difficultyLabel |-> l1]))

\* select_adaptive_quiz(request) for a student whose ability estimate is theta
select_adaptive_quiz(n, theta) ==
    LET target == target_counts(n, distributions(theta_level(theta)))
        r == quiz_loop(0, n, theta, target,
                       [easy |-> 0, medium |-> 0, hard |-> 0], << >>)
    IN [selectedQuestions |-> r.selectedQuestions,
        studentAbilityEstimate |-> theta,
        difficultyDistribution |-> r.difficultyDistribution]

SelectAdaptiveQuiz ==
    /\ op' = [kind |-> "select_adaptive_quiz",
              level |-> theta_level(request.theta),
              target_counts |-> target_counts(request.numQuestions,
                                              distributions(theta_level(request.theta)))]
    /\ ret' = select_adaptive_quiz(request.numQuestions, request.theta)
    /\ UNCHANGED <<now, ttl, competency_cache, class_stats_cache, difficulty_cache,
                   risk_model_cache, disk, HAS_JOBLIB, HAS_SHAP, request, written,
                   firestore, tasks, observed>>

InitQuiz ==
    /\ now = 0
    /\ ttl = 1
    /\ competency_cache = EmptyCache
    /\ class_stats_cache = EmptyCache
    /\ difficulty_cache = EmptyCache
    /\ risk_model_cache = EmptyCache
    /\ disk = None
    /\ HAS_JOBLIB = TRUE
    /\ HAS_SHAP = TRUE
    /\ request \in QuizRequests
    /\ written = << >>
    /\ firestore = NoStore
    /\ tasks = << >>
    /\ observed = << >>
    /\ op = [kind |-> "init"]
    /\ ret = None

NextQuiz == SelectAdaptiveQuiz

SpecQuiz == InitQuiz /\ [][NextQuiz]_vars

Sum3(c) == c.easy + c.medium + c.hard

\* C7: for numQuestions = 10, whatever the ability estimate and so whatever the
\* distribution, the difficultyDistribution returned equals the target counts,
\* bucket by bucket, and the counts sum to 10.
C7_HistogramMatchesTargets ==
    (op.kind = "select_adaptive_quiz" /\ request.numQuestions = 10) =>
        /\ ret.difficultyDistribution = op.target_counts
        /\ Sum3(ret.difficultyDistribution) = 10

\* a quiz of 10 in which a question's own bucket was full and it was moved
C7_Witness ==
    /\ op.kind = "select_adaptive_quiz"
    /\ request.numQuestions = 10
    /\ \E i \in 1..Len(ret.selectedQuestions) :
          ret.selectedQuestions[i].difficultyLabel
              # classify_difficulty(quiz_target_b(i - 1, request.theta))
    /\ ret.difficultyDistribution = op.target_counts

\* C8: for every numQuestions in 1..50 and every distribution the target
\* counts are non-negative and sum to numQuestions.
C8_TargetsSumToN ==
    op.kind = "select_adaptive_quiz" =>
        /\ op.target_counts.easy >= 0
        /\ op.target_counts.medium >= 0
        /\ op.target_counts.hard >= 0
        /\ Sum3(op.target_counts) = request.numQuestions

\* ------------------------------------------------------ efficiency score
\* Real numbers are exact fractions <<numerator, denominator>> in lowest terms
\* with a positive denominator; a score rounded to 2 places is an integer
\* number of hundredths.

RECURSIVE GCD(_, _)
GCD(a, b) == IF b = 0 THEN a ELSE GCD(b, a % b)

Abs(x) == IF x < 0 THEN -x ELSE x

\* the fraction n / d, d > 0
Rat(n, d) == LET g == GCD(Abs(n), d) IN <<n \div g, d \div g>>

RatAdd(x, y) == Rat(x[1] * y[2] + y[1] * x[2], x[2] * y[2])
RatLeq(x, y) == x[1] * y[2] <= y[1] * x[2]
RatMin(x, y) == IF RatLeq(x, y) THEN x ELSE y
RatMax(x, y) == IF RatLeq(x, y) THEN y ELSE x

\* round(x, 2), in hundredths
Round2(x) == RoundHalfEven(100 * x[1], x[2])

\* how many attempts the parallel lists of the model hold at most
MaxAttempts == 2

\* one position of the parallel lists student_times, student_accuracies and
\* attempt_counts
EffAttempts == [t : {-5, 0, 1, 20}, correct : BOOLEAN, attempts : {0, 1, 2}]

SeqsUpTo(S, n) == UNION {[1..k -> S] : k \in 0..n}

EffRequests ==
    [attempts : SeqsUpTo(EffAttempts, MaxAttempts), class_avg_time : {-60, 0, 30, 6000}]

\* _calculate_efficiency_score: the efficiency of one attempt, capped at 150;
\* class_avg is a fraction
attempt_efficiency(a, class_avg) ==
    LET t == IF a.t <= 0 THEN 1 ELSE a.t
        mult10 == IF a.correct THEN 10 ELSE 3
        att == Max2(a.attempts, 1)
        eff == Rat(class_avg[1] * mult10 * 100, class_avg[2] * t * att * 10)
    IN RatMin(eff, <<150, 1>>)

RECURSIVE sum_efficiencies(_, _)
\* sum(efficiencies)
sum_efficiencies(attempts, class_avg) ==
    IF attempts = << >>
    THEN <<0, 1>>
    ELSE RatAdd(attempt_efficiency(Head(attempts), class_avg),
                sum_efficiencies(Tail(attempts), class_avg))

\* the final clamp to [0, 100] left out
efficiency_clamp_missing(raw) == raw

\* _calculate_efficiency_score: min(max(raw, 0), 100)
efficiency_clamp(raw) == RatMin(RatMax(raw, <<0, 1>>), <<100, 1>>)

\* _calculate_efficiency_score(student_times, student_accuracies,
\* class_avg_time, attempt_counts), in hundredths; attempts is the three
\* parallel lists zipped, class_avg a fraction
calculate_efficiency_score(attempts, class_avg) ==
    IF attempts = << >> \/ class_avg[1] <= 0
    THEN 5000
    ELSE LET total == sum_efficiencies(attempts, class_avg)
             raw == Rat(total[1], total[2] * Len(attempts))
         IN Round2(efficiency_clamp(raw))

CalculateEfficiencyScore ==
    /\ op' = [kind |-> "calculate_efficiency_score"]
    /\ ret' = calculate_efficiency_score(request.attempts, <<request.class_avg_time, 1>>)
    /\ UNCHANGED <<now, ttl, competency_cache, class_stats_cache, difficulty_cache,
                   risk_model_cache, disk, HAS_JOBLIB, HAS_SHAP, request, written,
                   firestore, tasks, observed>>

InitEff ==
    /\ now = 0
    /\ ttl = 1
    /\ competency_cache = EmptyCache
    /\ class_stats_cache = EmptyCache
    /\ difficulty_cache = EmptyCache
    /\ risk_model_cache = EmptyCache
    /\ disk = None
    /\ HAS_JOBLIB = TRUE
    /\ HAS_SHAP = TRUE
    /\ request \in EffRequests
    /\ written = << >>
    /\ firestore = NoStore
    /\ tasks = << >>
    /\ observed = << >>
    /\ op = [kind |-> "init"]
    /\ ret = None

NextEff == CalculateEfficiencyScore

SpecEff == InitEff /\ [][NextEff]_vars

\* C9: _calculate_efficiency_score returns a value in [0, 100] for every input:
\* non-positive times, a non-positive class average, attempt counts below 1,
\* the empty list, a single very fast correct attempt.
C9_EfficiencyInRange ==
    op.kind = "calculate_efficiency_score" => (0 <= ret /\ ret <= 10000)

\* a single correct first attempt so fast that its own value is capped at 150
C9_Witness ==
    /\ op.kind = "calculate_efficiency_score"
    /\ Len(request.attempts) = 1
    /\ request.attempts[1].correct
    /\ request.attempts[1].t = 1
    /\ request.class_avg_time = 6000
    /\ ret = 10000

\* -------------------------------------------------- competency aggregator

\* MIN_QUIZ_ATTEMPTS_FOR_COMPETENCY
MIN_QUIZ_ATTEMPTS_FOR_COMPETENCY == 3

\* how many attempts a quiz history of the model holds at most
MaxHistory == 3

\* The quiz attempts a history is drawn from. An optional field is << >> when
\* the record does not carry it; day is completedAt in days.
AttemptPool ==
    {[topicId |-> "Linear Equations", score |-> 9, total |-> 10, attempts |-> 1,
      timeSpent |-> 30, day |-> <<95>>, correct |-> <<TRUE>>],
     [topicId |-> "Linear Equations", score |-> 2, total |-> 10, attempts |-> 2,
      timeSpent |-> 60, day |-> <<40>>, correct |-> << >>],
     [topicId |-> "Quadratic Equations", score |-> 5, total |-> 10, attempts |-> 1,
      timeSpent |-> 60, day |-> <<95>>, correct |-> << >>],
     [topicId |-> "Quadratic Equations", score |-> 0, total |-> 10, attempts |-> 3,
      timeSpent |-> 20, day |-> << >>, correct |-> <<FALSE>>],
     [topicId |-> "Integers", score |-> 10, total |-> 10, attempts |-> 1,
      timeSpent |-> 30, day |-> <<40>>, correct |-> <<TRUE>>],
     [topicId |-> "Integers", score |-> 4, total |-> 10, attempts |-> 1,
      timeSpent |-> 60, day |-> <<95>>, correct |-> << >>],
     [topicId |-> "Functions", score |-> 8, total |-> 10, attempts |-> 1,
      timeSpent |-> 45, day |-> <<40>>, correct |-> <<TRUE>>]}

\* topic_filter: none, a topic of the pool, a topic no attempt is about
TopicFilters == {None, "Linear Equations", "Fractions & Decimals"}

\* TopicRecommendationRequest.numRecommendations: Field(ge=1, le=20), the two
\* ends of the range
NumRecommendations == {1, 20}

CompRequests ==
    [quiz_history : SeqsUpTo(AttemptPool, MaxHistory), topic_filter : TopicFilters]

\* the attempts a fetched history of recommend_topics is drawn from: one or two
\* at each topic, the undated one and the failed one at a topic outside the
\* dependency graph among them
RecPool == {a \in AttemptPool : a.score \notin {2, 10}}

RecRequests ==
    [quiz_history : SeqsUpTo(RecPool, MaxHistory),
     numRecommendations : NumRecommendations]

\* datetime.utcnow(), in days
Today == 100

RECURSIVE topics_in_order(_, _, _)
\* the keys of topic_data, in the order the dict got them
topics_in_order(history, topic_filter, seen) ==
    IF history = << >>
    THEN << >>
    ELSE LET t == Head(history).topicId
             keep == (topic_filter = None \/ t = topic_filter) /\ t \notin seen
         IN (IF keep THEN <<t>> ELSE << >>)
            \o topics_in_order(Tail(history), topic_filter, seen \cup {t})

\* topic_data[topic]
topic_entries(history, topic) ==
    LET OfTopic(e) == e.topicId = topic IN SelectSeq(history, OfTopic)

\* pct >= 50 for pct = score / max(total, 1) * 100
entry_correct(e) == e.score * 100 >= 50 * Max2(e.total, 1)

\* the observation compute_competency_analysis hands to _estimate_theta:
\* entry.get("correct", False), a bool as it stands
irt_correct(e) == IF e.correct = << >> THEN FALSE ELSE e.correct[1]

RECURSIVE count_entries(_, _)
\* how many entries satisfy the test kind: "correct", "first_correct", "all"
count_entries(entries, kind) ==
    IF entries = << >>
    THEN 0
    ELSE LET e == Head(entries)
             hit == CASE kind = "correct" -> entry_correct(e)
                      [] kind = "first_correct" -> e.attempts <= 1 /\ entry_correct(e)
                      [] kind = "all" -> TRUE
         IN (IF hit THEN 1 ELSE 0) + count_entries(Tail(entries), kind)

RECURSIVE sum_times(_)
sum_times(entries) ==
    IF entries = << >> THEN 0 ELSE Head(entries).timeSpent + sum_times(Tail(entries))

RECURSIVE last_day(_)
\* max(t for t, _ in scores_over_time), << >> when no entry has a timestamp
last_day(entries) ==
    IF entries = << >>
    THEN << >>
    ELSE LET rest == last_day(Tail(entries))
             d == Head(entries).day
         IN IF d = << >> THEN rest
            ELSE IF rest = << >> THEN d
            ELSE <<Max2(d[1], rest[1])>>

\* the three parallel lists times, accuracies, attempt_counts of a topic
efficiency_inputs(entries) ==
    [i \in 1..Len(entries) |->
        [t |-> entries[i].timeSpent, correct |-> entry_correct(entries[i]),
         attempts |-> Max2(entries[i].attempts, 1)]]

\* compute_competency_analysis: the CompetencyAnalysis of one topic
topic_analysis(history, topic) ==
    LET entries == topic_entries(history, topic)
        total_count == Len(entries)
        avg_accuracy == Rat(count_entries(entries, "correct") * 100, Max2(total_count, 1))
        mastery_pct == Rat(count_entries(entries, "first_correct") * 100,
                           Max2(count_entries(entries, "all"), 1))
        class_avg_time == Rat(sum_times(entries), total_count)
    IN [topicId |-> topic,
        efficiencyScore |-> calculate_efficiency_score(efficiency_inputs(entries),
                                                       class_avg_time),
        competencyLevel |-> get_competency_level(avg_accuracy[1], avg_accuracy[2]),
        masteryPercentage |-> Round2(mastery_pct),
        totalAttempts |-> total_count,
        averageAccuracy |-> Round2(avg_accuracy),
        lastAttemptDate |-> last_day(entries)]

\* the sort key compared the other way round
efficiency_before_descending(a, b) == a.efficiencyScore >= b.efficiencyScore

\* analyses.sort(key=lambda a: a.efficiencyScore): a stays before a later b
efficiency_before(a, b) == a.efficiencyScore <= b.efficiencyScore

RECURSIVE insert_by_efficiency(_, _)
insert_by_efficiency(sorted, x) ==
    IF sorted = << >>
    THEN <<x>>
    ELSE IF efficiency_before(sorted[Len(sorted)], x)
    THEN Append(sorted, x)
    ELSE Append(insert_by_efficiency(SubSeq(sorted, 1, Len(sorted) - 1), x),
                sorted[Len(sorted)])

RECURSIVE sort_by_efficiency(_)
\* list.sort is stable
sort_by_efficiency(seq) ==
    IF seq = << >>
    THEN << >>
    ELSE insert_by_efficiency(sort_by_efficiency(SubSeq(seq, 1, Len(seq) - 1)),
                              seq[Len(seq)])

RECURSIVE sum_efficiency_scores(_)
sum_efficiency_scores(analyses) ==
    IF analyses = << >>
    THEN 0
    ELSE Head(analyses).efficiencyScore + sum_efficiency_scores(Tail(analyses))

InsufficientData ==
    [status |-> "insufficient_data", analyses |-> << >>, overallCompetency |-> None,
     thetaEstimate |-> None]

\* the floor of 3 attempts checked after the topic filter, on the kept attempts
enough_attempts_filtered(history, topic_filter) ==
    LET Kept(e) == topic_filter = None \/ e.topicId = topic_filter
    IN Len(SelectSeq(history, Kept)) >= MIN_QUIZ_ATTEMPTS_FOR_COMPETENCY

\* not (not quiz_history or len(quiz_history) < MIN_QUIZ_ATTEMPTS_FOR_COMPETENCY)
enough_attempts(history, topic_filter) ==
    history # << >> /\ Len(history) >= MIN_QUIZ_ATTEMPTS_FOR_COMPETENCY

\* compute_competency_analysis(student_id, quiz_history, topic_filter); the
\* ability estimate is the bounded minimiser's and is not computed here
compute_competency_analysis(history, topic_filter) ==
    IF ~enough_attempts(history, topic_filter)
    THEN InsufficientData
    ELSE LET topics == topics_in_order(history, topic_filter, {})
         IN IF topics = << >>
            THEN InsufficientData
            ELSE LET analyses ==
                         sort_by_efficiency(
                             [i \in 1..Len(topics) |-> topic_analysis(history, topics[i])])
                     avg_eff == Rat(sum_efficiency_scores(analyses), 100 * Len(analyses))
                 IN [status |-> "success",
                     analyses |-> analyses,
                     overallCompetency |-> get_competency_level(avg_eff[1], avg_eff[2]),
                     thetaEstimate |-> "estimated"]

\* the scores _get_competency_level is given: 0 to 100 in halves, as <<num, 2>>
ScoreRequests == [score : {<<n, 2>> : n \in 0..200}]

GetCompetencyLevel ==
    /\ "score" \in DOMAIN request
    /\ op' = [kind |-> "_get_competency_level"]
    /\ ret' = [level |-> get_competency_level(request.score[1], request.score[2])]
    /\ UNCHANGED <<now, ttl, competency_cache, class_stats_cache, difficulty_cache,
                   risk_model_cache, disk, HAS_JOBLIB, HAS_SHAP, request, written,
                   firestore, tasks, observed>>

RECURSIVE entries_by_topic(_, _)
\* compute_competency_analysis: for topic, entries in topic_data.items(): for
\* entry in entries
entries_by_topic(history, topics) ==
    IF topics = << >>
    THEN << >>
    ELSE topic_entries(history, Head(topics)) \o entries_by_topic(history, Tail(topics))

\* compute_competency_analysis: all_responses_for_irt, each observation with the
\* entry it was made from; none is made when the analysis returns early
all_responses_for_irt(history, topic_filter) ==
    IF ~enough_attempts(history, topic_filter)
    THEN << >>
    ELSE LET entries == entries_by_topic(history,
                                         topics_in_order(history, topic_filter, {}))
         IN [i \in DOMAIN entries |->
                [entry |-> entries[i], correct |-> irt_correct(entries[i])]]

ComputeCompetencyAnalysis ==
    /\ "quiz_history" \in DOMAIN request
    /\ op' = [kind |-> "compute_competency_analysis",
              all_responses_for_irt |->
                  all_responses_for_irt(request.quiz_history, request.topic_filter)]
    /\ ret' = compute_competency_analysis(request.quiz_history, request.topic_filter)
    /\ UNCHANGED <<now, ttl, competency_cache, class_stats_cache, difficulty_cache,
                   risk_model_cache, disk, HAS_JOBLIB, HAS_SHAP, request, written,
                   firestore, tasks, observed>>

\* ---------------------------------------------- topic recommendation engine

\* the topics TOPIC_PREREQUISITES has an entry for
GraphTopics ==
    {"Quadratic Equations", "Systems of Equations", "Polynomials", "Factoring",
     "Quadratic Functions", "Exponential Functions", "Trigonometric Ratios",
     "Trigonometric Functions", "Derivatives", "Integration", "Limits",
     "Coordinate Geometry", "Circle Theorems", "Logarithmic Functions",
     "Rational Functions", "Complex Numbers", "Matrices (Introduction)",
     "Conic Sections", "Probability of Compound Events",
     "Permutations & Combinations", "Hypothesis Testing Basics",
     "Confidence Intervals", "Regression Analysis", "Statistical Inference",
     "Multivariable Calculus", "Differential Equations", "Vector Calculus",
     "Linear Transformations", "Eigenvalues & Eigenvectors"}

\* TOPIC_PREREQUISITES
TOPIC_PREREQUISITES ==
    [t \in GraphTopics |->
      CASE
         t = "Quadratic Equations" -> <<"Linear Equations", "Variables & Expressions">>
      [] t = "Systems of Equations" -> <<"Linear Equations", "Slope & Rate of Change">>
      [] t = "Polynomials" -> <<"Variables & Expressions", "Exponents & Powers">>
      [] t = "Factoring" -> <<"Polynomials", "Variables & Expressions">>
      [] t = "Quadratic Functions" -> <<"Quadratic Equations", "Functions">>
      [] t = "Exponential Functions" -> <<"Exponents & Powers", "Functions">>
      [] t = "Trigonometric Ratios" -> <<"Pythagorean Theorem", "Angles", "Triangles">>
      [] t = "Trigonometric Functions" -> <<"Trigonometric Ratios", "Functions">>
      [] t = "Derivatives" -> <<"Limits", "Functions">>
      [] t = "Integration" -> <<"Derivatives", "Area Under a Curve">>
      [] t = "Limits" -> <<"Functions", "Rational Expressions">>
      [] t = "Coordinate Geometry" -> <<"Linear Equations", "Slope & Rate of Change">>
      [] t = "Circle Theorems" -> <<"Circles", "Angles">>
      [] t = "Logarithmic Functions" -> <<"Exponential Functions">>
      [] t = "Rational Functions" -> <<"Polynomials", "Factoring">>
      [] t = "Complex Numbers" -> <<"Quadratic Equations", "Radicals & Exponents">>
      [] t = "Matrices (Introduction)" -> <<"Systems of Equations">>
      [] t = "Conic Sections" -> <<"Coordinate Geometry", "Quadratic Functions">>
      [] t = "Probability of Compound Events" -> <<"Probability Basics">>
      [] t = "Permutations & Combinations" -> <<"Probability Basics", "Factorial">>
      [] t = "Hypothesis Testing Basics" -> <<"Normal Distribution Basics", "Sampling Methods">>
      [] t = "Confidence Intervals" -> <<"Normal Distribution Basics", "Sampling Methods">>
      [] t = "Regression Analysis" -> <<"Scatter Plots", "Linear Functions">>
      [] t = "Statistical Inference" -> <<"Hypothesis Testing Basics", "Confidence Intervals">>
      [] t = "Multivariable Calculus" -> <<"Derivatives", "Integration">>
      [] t = "Differential Equations" -> <<"Derivatives", "Integration">>
      [] t = "Vector Calculus" -> <<"Multivariable Calculus", "Vectors">>
      [] t = "Linear Transformations" -> <<"Matrices & Determinants", "Vector Spaces">>
      [] t = "Eigenvalues & Eigenvectors" -> <<"Matrices & Determinants">>]

\* every topic of the dependency graph, keys and prerequisites, once each
GraphTopicOrder ==
    <<"Quadratic Equations", "Linear Equations", "Variables & Expressions",
      "Systems of Equations", "Slope & Rate of Change", "Polynomials",
      "Exponents & Powers", "Factoring", "Quadratic Functions", "Functions",
      "Exponential Functions", "Trigonometric Ratios", "Pythagorean Theorem",
      "Angles", "Triangles", "Trigonometric Functions", "Derivatives", "Limits",
      "Integration", "Area Under a Curve", "Rational Expressions",
      "Coordinate Geometry", "Circle Theorems", "Circles", "Logarithmic Functions",
      "Rational Functions", "Complex Numbers", "Radicals & Exponents",
      "Matrices (Introduction)", "Conic Sections", "Probability of Compound Events",
      "Probability Basics", "Permutations & Combinations", "Factorial",
      "Hypothesis Testing Basics", "Normal Distribution Basics", "Sampling Methods",
      "Confidence Intervals", "Regression Analysis", "Scatter Plots",
      "Linear Functions", "Statistical Inference", "Multivariable Calculus",
      "Differential Equations", "Vector Calculus", "Vectors",
      "Linear Transformations", "Matrices & Determinants", "Vector Spaces",
      "Eigenvalues & Eigenvectors">>

Range(seq) == {seq[i] : i \in 1..Len(seq)}

Reverse(seq) == [i \in 1..Len(seq) |-> seq[Len(seq) + 1 - i]]

\* dependencies.get(topic, [])
prerequisites(topic) ==
    IF topic \in GraphTopics THEN TOPIC_PREREQUISITES[topic] ELSE << >>

RECURSIVE analysed_topics(_)
analysed_topics(analyses) ==
    IF analyses = << >>
    THEN << >>
    ELSE <<Head(analyses).topicId>> \o analysed_topics(Tail(analyses))

\* recommend_topics: all_topics, in an order a set can be iterated in; the
\* order is the interpreter's, so either a fixed one or its reverse
all_topics(analyses, reversed) ==
    LET NotInGraph(t) == t \notin Range(GraphTopicOrder)
        order == SelectSeq(analysed_topics(analyses), NotInGraph) \o GraphTopicOrder
    IN IF reversed THEN Reverse(order) ELSE order

\* topic_competencies.get(topic): << >> or <<the analysis>>
topic_competency(analyses, topic) ==
    LET OfTopic(a) == a.topicId = topic
        found == SelectSeq(analyses, OfTopic)
    IN IF found = << >> THEN << >> ELSE <<found[Len(found)]>>

\* recommend_topics: weakness_score, a fraction; score is in hundredths
weakness_score(level, score) ==
    CASE level = "not_attempted" -> <<70, 1>>
      [] level = "beginner" -> Rat(10000 - score, 100)
      [] level = "developing" -> Rat(16000 - score, 200)
      [] OTHER -> Rat(40000 - 3 * score, 1000)

\* the averageAccuracy of a prerequisite (hundredths), 0 when never attempted
prereq_score(analyses, p) ==
    LET c == topic_competency(analyses, p)
    IN IF c = << >> THEN 0 ELSE c[1].averageAccuracy

RECURSIVE sum_prereq_scores(_, _)
sum_prereq_scores(analyses, prereqs) ==
    IF prereqs = << >>
    THEN 0
    ELSE prereq_score(analyses, Head(prereqs))
         + sum_prereq_scores(analyses, Tail(prereqs))

\* recommend_topics: prereq_avg, a fraction
prereq_avg(analyses, topic) ==
    LET prereqs == prerequisites(topic)
    IN IF prereqs = << >>
       THEN <<100, 1>>
       ELSE Rat(sum_prereq_scores(analyses, prereqs), 100 * Len(prereqs))

\* a prerequisite counts as met only above 50
prereqs_met_strict(analyses, topic) ==
    \A i \in 1..Len(prerequisites(topic)) :
        prereq_score(analyses, prerequisites(topic)[i]) > 5000

\* recommend_topics: prereqs_met
prereqs_met(analyses, topic) ==
    \A i \in 1..Len(prerequisites(topic)) :
        prereq_score(analyses, prerequisites(topic)[i]) >= 5000

\* recommend_topics: days_since
days_since(c, today) ==
    IF c # << >> /\ c[1].lastAttemptDate # << >>
    THEN today - c[1].lastAttemptDate[1]
    ELSE 30

RatScale(x, n, d) == Rat(x[1] * n, x[2] * d)

\* recommend_topics: total_score, rounded to 2 places (hundredths)
recommendation_score(analyses, topic, today) ==
    LET c == topic_competency(analyses, topic)
        level == IF c = << >> THEN "not_attempted" ELSE c[1].competencyLevel
        score == IF c = << >> THEN 0 ELSE c[1].averageAccuracy
        met == prereqs_met(analyses, topic)
        recency == Min2(days_since(c, today), 60)
        total == RatAdd(RatAdd(RatScale(weakness_score(level, score), 4, 10),
                               RatScale(prereq_avg(analyses, topic), 3, 10)),
                        RatAdd(Rat(recency * 2, 10), IF met THEN <<1, 1>> ELSE <<0, 1>>))
    IN Round2(IF met THEN total ELSE RatScale(total, 6, 10))

\* recommend_topics: est_hours
estimated_hours(level) ==
    CASE level = "not_attempted" -> 8
      [] level = "beginner" -> 6
      [] level = "developing" -> 4
      [] OTHER -> 2

\* recommend_topics: the TopicRecommendation of one candidate
topic_recommendation(analyses, topic, today) ==
    LET c == topic_competency(analyses, topic)
        level == IF c = << >> THEN "not_attempted" ELSE c[1].competencyLevel
    IN [topicId |-> topic,
        recommendationScore |-> recommendation_score(analyses, topic, today),
        estimatedTimeToMastery |-> estimated_hours(level),
        prerequisitesMet |-> prereqs_met(analyses, topic),
        currentCompetency |-> level]

\* no topic is skipped as already mastered
is_candidate_always(level) == TRUE

\* recommend_topics: if current_level == "advanced": continue
is_candidate(level) == level # "advanced"

RECURSIVE score_topics(_, _, _)
\* recommend_topics: for topic in all_topics
score_topics(analyses, topics, today) ==
    IF topics = << >>
    THEN << >>
    ELSE LET r == topic_recommendation(analyses, Head(topics), today)
         IN (IF is_candidate(r.currentCompetency) THEN <<r>> ELSE << >>)
            \o score_topics(analyses, Tail(topics), today)

\* scored_topics sorted in ascending order of score
score_before_ascending(a, b) == a.recommendationScore <= b.recommendationScore

\* scored_topics.sort(key=..., reverse=True): a stays before a later b
score_before(a, b) == a.recommendationScore >= b.recommendationScore

RECURSIVE insert_by_score(_, _)
insert_by_score(sorted, x) ==
    IF sorted = << >>
    THEN <<x>>
    ELSE IF score_before(sorted[Len(sorted)], x)
    THEN Append(sorted, x)
    ELSE Append(insert_by_score(SubSeq(sorted, 1, Len(sorted) - 1), x),
                sorted[Len(sorted)])

RECURSIVE sort_by_score(_)
sort_by_score(seq) ==
    IF seq = << >>
    THEN << >>
    ELSE insert_by_score(sort_by_score(SubSeq(seq, 1, Len(seq) - 1)), seq[Len(seq)])

\* seq[:n]
Take(seq, n) == IF Len(seq) <= n THEN seq ELSE SubSeq(seq, 1, n)

\* recommend_topics: the cold-start recommendations
foundational ==
    <<[topicId |-> "Variables & Expressions", recommendationScore |-> 9500,
       estimatedTimeToMastery |-> 3, prerequisitesMet |-> TRUE,
       currentCompetency |-> "not_attempted"],
      [topicId |-> "Integers", recommendationScore |-> 9000,
       estimatedTimeToMastery |-> 2, prerequisitesMet |-> TRUE,
       currentCompetency |-> "not_attempted"],
      [topicId |-> "Fractions & Decimals", recommendationScore |-> 8500,
       estimatedTimeToMastery |-> 4, prerequisitesMet |-> TRUE,
       currentCompetency |-> "not_attempted"]>>

\* recommend_topics(request) for a student whose fetched history is history
recommend_topics(history, numRecommendations, today, reversed) ==
    IF history = << >>
    THEN [status |-> "cold_start", recommendations |-> Take(foundational, numRecommendations)]
    ELSE LET analyses == compute_competency_analysis(history, None).analyses
             scored == score_topics(analyses, all_topics(analyses, reversed), today)
         IN [status |-> "success",
             recommendations |-> Take(sort_by_score(scored), numRecommendations)]

RecommendTopics(reversed) ==
    /\ op' = [kind |-> "recommend_topics", reversed |-> reversed]
    /\ ret' = recommend_topics(request.quiz_history, request.numRecommendations,
                               Today, reversed)
    /\ UNCHANGED <<now, ttl, competency_cache, class_stats_cache, difficulty_cache,
                   risk_model_cache, disk, HAS_JOBLIB, HAS_SHAP, request, written,
                   firestore, tasks, observed>>

InitRec ==
    /\ now = 0
    /\ ttl = 1
    /\ competency_cache = EmptyCache
    /\ class_stats_cache = EmptyCache
    /\ difficulty_cache = EmptyCache
    /\ risk_model_cache = EmptyCache
    /\ disk = None
    /\ HAS_JOBLIB = TRUE
    /\ HAS_SHAP = TRUE
    /\ request \in RecRequests
    /\ written = << >>
    /\ firestore = NoStore
    /\ tasks = << >>
    /\ observed = << >>
    /\ op = [kind |-> "init"]
    /\ ret = None

NextRec == \E reversed \in BOOLEAN : RecommendTopics(reversed)

SpecRec == InitRec /\ [][NextRec]_vars

InitComp ==
    /\ now = 0
    /\ ttl = 1
    /\ competency_cache = EmptyCache
    /\ class_stats_cache = EmptyCache
    /\ difficulty_cache = EmptyCache
    /\ risk_model_cache = EmptyCache
    /\ disk = None
    /\ HAS_JOBLIB = TRUE
    /\ HAS_SHAP = TRUE
    /\ request \in CompRequests \cup ScoreRequests
    /\ written = << >>
    /\ firestore = NoStore
    /\ tasks = << >>
    /\ observed = << >>
    /\ op = [kind |-> "init"]
    /\ ret = None

NextComp == ComputeCompetencyAnalysis \/ GetCompetencyLevel

SpecComp == InitComp /\ [][NextComp]_vars

\* some attempt of the history is about the topic the filter names
FilterMatches ==
    \E i \in 1..Len(request.quiz_history) :
        request.quiz_history[i].topicId = request.topic_filter

\* the statement of C4 as it was made, with no regard to the topic filter
C4_AsClaimed ==
    op.kind = "compute_competency_analysis" =>
        /\ Len(request.quiz_history) < 3 => ret = InsufficientData
        /\ Len(request.quiz_history) >= 3 =>
              (ret.status = "success" /\ ret.analyses # << >>)

\* C4: compute_competency_analysis returns "insufficient_data" with no
\* analyses, no theta and no overall competency for every history of fewer than
\* 3 attempts; for a history of 3 or more attempts it returns "success" with a
\* non-empty analyses list when no topic filter is given or some attempt is
\* about the filtered topic, and "insufficient_data" with no analyses when the
\* filter names a topic no attempt is about.
C4_InsufficientOrSuccess ==
    op.kind = "compute_competency_analysis" =>
        /\ Len(request.quiz_history) < 3 => ret = InsufficientData
        /\ (Len(request.quiz_history) >= 3
            /\ (request.topic_filter = None \/ FilterMatches)) =>
              (ret.status = "success" /\ ret.analyses # << >>)
        /\ (Len(request.quiz_history) >= 3
            /\ request.topic_filter # None /\ ~FilterMatches) =>
              (ret.status = "insufficient_data" /\ ret.analyses = << >>)

\* three attempts of which the filter keeps one: still a success, of one topic
C4_Witness ==
    /\ op.kind = "compute_competency_analysis"
    /\ Len(request.quiz_history) = 3
    /\ request.topic_filter = "Linear Equations"
    /\ Len(topic_entries(request.quiz_history, "Linear Equations")) = 1
    /\ ret.status = "success"
    /\ Len(ret.analyses) = 1
    /\ ret.analyses[1].totalAttempts = 1

\* C5: in every successful result of compute_competency_analysis the analyses
\* are in non-decreasing order of efficiencyScore: each one's score is at most
\* the next one's.
C5_SortedByEfficiency ==
    (op.kind = "compute_competency_analysis" /\ ret.status = "success") =>
        \A i \in 1..(Len(ret.analyses) - 1) :
            ret.analyses[i].efficiencyScore <= ret.analyses[i + 1].efficiencyScore

\* a success whose topics come back in another order than the history met them
C5_Witness ==
    /\ op.kind = "compute_competency_analysis"
    /\ ret.status = "success"
    /\ Len(ret.analyses) >= 2
    /\ ret.analyses[1].efficiencyScore < ret.analyses[2].efficiencyScore
    /\ ret.analyses[1].topicId
           # topics_in_order(request.quiz_history, request.topic_filter, {})[1]

\* the analyses recommend_topics works from: those of the same history
RecAnalyses == compute_competency_analysis(request.quiz_history, None).analyses

\* C6: whatever the quiz history and numRecommendations, no recommendation of
\* recommend_topics is about a topic that compute_competency_analysis, for the
\* same history, puts at level "advanced".
C6_NoAdvancedRecommended ==
    op.kind = "recommend_topics" =>
        \A i \in 1..Len(ret.recommendations) :
            \A j \in 1..Len(RecAnalyses) :
                RecAnalyses[j].topicId = ret.recommendations[i].topicId =>
                    RecAnalyses[j].competencyLevel # "advanced"

\* a history with an advanced topic and a weaker one, which is recommended
C6_Witness ==
    /\ op.kind = "recommend_topics"
    /\ ret.status = "success"
    /\ request.numRecommendations = 20
    /\ \E j \in 1..Len(RecAnalyses) : RecAnalyses[j].competencyLevel = "advanced"
    /\ \E i \in 1..Len(ret.recommendations) :
          ret.recommendations[i].currentCompetency \notin {"not_attempted", "advanced"}

\* ------------------------------------------------------ IRT 3PL probability
\* theta and b are in tenths, a in tenths, c in hundredths; the exponent
\* -a * (theta - b) is then in hundredths. A probability is an integer number
\* of 1e-8.

IrtThetas == {t \in Thetas : t % 5 = 0}
IrtA == {3, 10, 30}
IrtB == {-45, -10, 0, 10, 25, 70, 3000}
IrtC == {0, 25, 90}

IrtRequests == [theta : IrtThetas, a : IrtA, b : IrtB, c : IrtC]

\* 1 / (1 + math.exp(e / 100)) in millionths, for the exponents e in [-20, 20]
\* the requests of the model produce
LogisticTable ==
    {<<-2000, 1000000>>, <<-1950, 1000000>>, <<-1800, 1000000>>, <<-1650, 1000000>>,
     <<-1500, 1000000>>, <<-1350, 999999>>, <<-1200, 999994>>, <<-1050, 999972>>,
     <<-900, 999877>>, <<-850, 999797>>, <<-800, 999665>>, <<-750, 999447>>,
     <<-700, 999089>>, <<-650, 998499>>, <<-600, 997527>>, <<-550, 995930>>,
     <<-500, 993307>>, <<-450, 989013>>, <<-400, 982014>>, <<-350, 970688>>,
     <<-300, 952574>>, <<-255, 927574>>, <<-250, 924142>>, <<-240, 916827>>,
     <<-225, 904651>>, <<-210, 890903>>, <<-200, 880797>>, <<-195, 875447>>,
     <<-180, 858149>>, <<-165, 838891>>, <<-150, 817574>>, <<-135, 794130>>,
     <<-120, 768525>>, <<-105, 740775>>, <<-100, 731059>>, <<-90, 710950>>,
     <<-75, 679179>>, <<-60, 645656>>, <<-50, 622459>>, <<-45, 610639>>,
     <<-30, 574443>>, <<-15, 537430>>, <<0, 500000>>, <<15, 462570>>, <<30, 425557>>,
     <<45, 389361>>, <<50, 377541>>, <<60, 354344>>, <<75, 320821>>, <<90, 289050>>,
     <<100, 268941>>, <<105, 259225>>, <<120, 231475>>, <<135, 205870>>,
     <<150, 182426>>, <<165, 161109>>, <<180, 141851>>, <<195, 124553>>,
     <<200, 119203>>, <<210, 109097>>, <<225, 95349>>, <<240, 83173>>, <<250, 75858>>,
     <<255, 72426>>, <<270, 62973>>, <<285, 54681>>, <<300, 47426>>, <<315, 41091>>,
     <<330, 35571>>, <<350, 29312>>, <<400, 17986>>, <<450, 10987>>, <<500, 6693>>,
     <<550, 4070>>, <<600, 2473>>, <<650, 1501>>, <<700, 911>>, <<750, 553>>,
     <<800, 335>>, <<850, 203>>, <<900, 123>>, <<950, 75>>, <<1000, 45>>, <<1050, 28>>,
     <<1100, 17>>, <<1200, 6>>, <<1350, 1>>, <<1500, 0>>, <<1650, 0>>, <<1800, 0>>,
     <<1950, 0>>, <<2000, 0>>}

\* 1 / (1 + math.exp(e / 100)) in millionths: [val |-> ...], or Raised where
\* math.exp raises OverflowError (above 709.78); beyond +-20 the quotient is
\* within 2.1e-9 of 0 or 1
logistic(e) ==
    IF e > 70978 THEN Raised
    ELSE IF e > 2000 THEN [val |-> 0]
    ELSE IF e < -2000 THEN [val |-> 1000000]
    ELSE [val |-> (CHOOSE p \in LogisticTable : p[1] = e)[2]]

\* _irt_3pl_probability with the exponent left as it is
irt_exponent_unclamped(e) == e

\* _irt_3pl_probability: max(-20, min(20, exponent))
irt_exponent_clamped(e) == Max2(-2000, Min2(2000, e))

\* _irt_3pl_probability(theta, a, b, c): [p |-> the probability], or Raised
irt_3pl_probability(theta, a, b, c) ==
    LET exponent == irt_exponent_clamped((-a) * (theta - b))
        l == logistic(exponent)
    IN IF l = Raised THEN Raised
       ELSE [p |-> c * 1000000 + (100 - c) * l.val]

IrtProbability ==
    /\ op' = [kind |-> "irt_3pl_probability"]
    /\ ret' = irt_3pl_probability(request.theta, request.a, request.b, request.c)
    /\ UNCHANGED <<now, ttl, competency_cache, class_stats_cache, difficulty_cache,
                   risk_model_cache, disk, HAS_JOBLIB, HAS_SHAP, request, written,
                   firestore, tasks, observed>>

InitIrt ==
    /\ now = 0
    /\ ttl = 1
    /\ competency_cache = EmptyCache
    /\ class_stats_cache = EmptyCache
    /\ difficulty_cache = EmptyCache
    /\ risk_model_cache = EmptyCache
    /\ disk = None
    /\ HAS_JOBLIB = TRUE
    /\ HAS_SHAP = TRUE
    /\ request \in IrtRequests
    /\ written = << >>
    /\ firestore = NoStore
    /\ tasks = << >>
    /\ observed = << >>
    /\ op = [kind |-> "init"]
    /\ ret = None

NextIrt == IrtProbability

SpecIrt == InitIrt /\ [][NextIrt]_vars

\* C15: for theta in [-4, 4], a in [0.3, 3.0], any b and c in [0, 1) the
\* probability lies in [c, 1], and it is no smaller than the probability of
\* any theta2, b2 with theta2 - b2 <= theta - b (same a and c).
C15_IrtBoundedMonotone ==
    op.kind = "irt_3pl_probability" =>
        /\ ret # Raised
        /\ request.c * 1000000 <= ret.p
        /\ ret.p <= 100000000
        /\ \A theta2 \in IrtThetas : \A b2 \in IrtB :
              theta2 - b2 <= request.theta - request.b =>
                  LET q == irt_3pl_probability(theta2, request.a, b2, request.c)
                  IN q # Raised /\ q.p <= ret.p

\* a question so hard that the exponent is far above the clamp, and one in
\* the steep part of the curve
C15_Witness ==
    /\ op.kind = "irt_3pl_probability"
    /\ request.b = 0
    /\ request.theta = 10
    /\ ret.p > request.c * 1000000
    /\ ret.p < 100000000
    /\ irt_3pl_probability(request.theta, request.a, 3000, request.c).p
           = request.c * 1000000

(***************************************************************************)
(* Question difficulty calibration (calibrate_question_difficulty).  b and *)
(* a are in thousandths, c in hundredths, successRate in ten-thousandths.  *)
(* The coroutine suspends once, in the call that persists the parameters.  *)
(***************************************************************************)

\* the longest list of responses drawn (besides TenCorrect)
MaxResponses == 4

\* r.get("correct") is True, False or absent
Responses == [correct : {<<TRUE>>, <<FALSE>>, << >>}, timeSpent : {30, 90}]

TenCorrect == [i \in 1..10 |-> [correct |-> <<TRUE>>, timeSpent |-> 30]]

CalRequests ==
    [questionId : {"q1"},
     studentResponses : SeqsUpTo(Responses, MaxResponses) \cup {TenCorrect}]

\* what the store and the cache may hold for the question before the call
PriorParams ==
    [b |-> 693, a |-> 1000, c |-> 25, difficultyLabel |-> "medium",
     successRate |-> 3333, totalResponses |-> 3, updatedAt |-> <<"SERVER_TIMESTAMP">>]

\* the exceptions the calibration can raise
ValueError == [raised |-> TRUE, type |-> "ValueError"]
ZeroDivisionError == [raised |-> TRUE, type |-> "ZeroDivisionError"]
is_raised(x) == "raised" \in DOMAIN x

\* r.get("correct", False)
is_correct(r) == r.correct = <<TRUE>>

\* sum(1 for r in responses if ...): the responses no slower than max_time
\* (<< >>: any), only the correct ones when correct_only
count_responses(responses, correct_only, max_time) ==
    Cardinality({i \in DOMAIN responses :
                    /\ correct_only => is_correct(responses[i])
                    /\ max_time # << >> => responses[i].timeSpent <= max_time[1]})

\* p without the clamp: 0 and 1 reach the logarithm
clamp_rate_missing(rate) == rate

\* max(0.01, min(0.99, success_rate))
clamp_rate(rate) == RatMax(<<1, 100>>, RatMin(<<99, 100>>, rate))

\* round(math.log((1 - p) / p), 3) for the rates below, as the interpreter gives it
LogitTable ==
    {<<1, 2, 0>>, <<1, 3, 693>>, <<2, 3, -693>>, <<1, 4, 1099>>, <<3, 4, -1099>>,
     <<1, 5, 1386>>, <<2, 5, 405>>, <<3, 5, -405>>, <<4, 5, -1386>>,
     <<1, 6, 1609>>, <<5, 6, -1609>>,
     <<1, 10, 2197>>, <<3, 10, 847>>, <<7, 10, -847>>, <<9, 10, -2197>>,
     <<1, 100, 4595>>, <<99, 100, -4595>>}

\* p = 0 divides by zero and p = 1 takes the logarithm of zero: both raise
logit(p) ==
    IF p[1] = 0 THEN ZeroDivisionError
    ELSE IF p[1] = p[2] THEN ValueError
    ELSE [val |-> (CHOOSE e \in LogitTable : e[1] = p[1] /\ e[2] = p[2])[3]]

\* sorted(times)[len(times) // 2]
median_time(responses) ==
    LET n == Len(responses)
        times == {responses[i].timeSpent : i \in 1..n}
        reach(v) == Cardinality({i \in 1..n : responses[i].timeSpent <= v}) >= n \div 2 + 1
    IN CHOOSE v \in times : reach(v) /\ \A w \in times : reach(w) => v <= w

\* the discrimination parameter a
discrimination(responses) ==
    IF Len(responses) >= 4
    THEN LET m == median_time(responses)
             fast_correct == count_responses(responses, TRUE, <<m>>)
             fast_total == count_responses(responses, FALSE, <<m>>)
             slow_correct == count_responses(responses, TRUE, << >>) - fast_correct
             slow_total == Len(responses) - fast_total
             p_fast == Rat(fast_correct, Max2(fast_total, 1))
             p_slow == Rat(slow_correct, Max2(slow_total, 1))
             diff == RatAdd(p_fast, <<-p_slow[1], p_slow[2]>>)
             raw == RatAdd(<<3 * diff[1], diff[2]>>, <<1, 1>>)
             clamped == RatMax(<<3, 10>>, RatMin(<<3, 1>>, raw))
         IN RoundHalfEven(1000 * clamped[1], clamped[2])
    ELSE 1000

difficulty_label(b) ==
    IF b < -1000 THEN "easy" ELSE IF b < 1000 THEN "medium" ELSE "hard"

\* the check of line 1184 left out
no_responses_ignored(responses) == FALSE

\* if not responses
no_responses(responses) == responses = << >>

\* lines 1183-1233: the parameters, or the exception raised on the way
calibration_params(responses) ==
    IF no_responses(responses) THEN ValueError
    ELSE IF Len(responses) = 0 THEN ZeroDivisionError
    ELSE LET total == Len(responses)
             success_rate == Rat(count_responses(responses, TRUE, << >>), total)
             b == logit(clamp_rate(success_rate))
         IN IF is_raised(b)
            THEN b
            ELSE [b |-> b.val, a |-> discrimination(responses), c |-> 25,
                  difficultyLabel |-> difficulty_label(b.val),
                  successRate |-> RoundHalfEven(10000 * success_rate[1], success_rate[2]),
                  totalResponses |-> total, updatedAt |-> << >>]

CalibrateDifficultyResponse(questionId, params) ==
    [questionId |-> questionId, difficultyParameter |-> params.b,
     discriminationParameter |-> params.a, guessingParameter |-> params.c,
     difficultyLabel |-> params.difficultyLabel,
     totalResponses |-> params.totalResponses, successRate |-> params.successRate]

\* the request's coroutine before its first step
NewTask(kind) == [kind |-> kind, pc |-> "start"]

\* calibrate_question_difficulty up to its await: an exception ends the request,
\* otherwise it suspends in store_question_difficulty
CalibrateStart(t) ==
    /\ tasks[t].kind = "calibrate" /\ tasks[t].pc = "start"
    /\ LET params == calibration_params(request.studentResponses)
           before == [caches |-> AllCaches, persisted |-> firestore.difficulty]
       IN IF is_raised(params)
          THEN /\ tasks' = [tasks EXCEPT ![t] = [kind |-> "calibrate", pc |-> "raised",
                                                 before |-> before]]
               /\ op' = [kind |-> "calibrate", task |-> t]
               /\ ret' = params
          ELSE /\ tasks' = [tasks EXCEPT ![t] = [kind |-> "calibrate", pc |-> "store",
                                                 params |-> params, before |-> before]]
               /\ UNCHANGED <<op, ret>>
    /\ UNCHANGED <<now, ttl, competency_cache, class_stats_cache, difficulty_cache,
                   risk_model_cache, disk, HAS_JOBLIB, HAS_SHAP, request, written,
                   firestore, observed>>

\* store_question_difficulty: without a database nothing is stored; with one the
\* dict gets updatedAt and is written, and a failing write is logged and swallowed
StoreQuestionDifficulty(t, write_fails) ==
    /\ tasks[t].kind = "calibrate" /\ tasks[t].pc = "store"
    /\ LET params == IF firestore.db
                     THEN [tasks[t].params EXCEPT !.updatedAt = <<"SERVER_TIMESTAMP">>]
                     ELSE tasks[t].params
       IN /\ tasks' = [tasks EXCEPT ![t].pc = "stored", ![t].params = params]
          /\ firestore' = IF firestore.db /\ ~write_fails
                          THEN [firestore EXCEPT
                                   !.difficulty = DictPut(@, request.questionId, params)]
                          ELSE firestore
    /\ UNCHANGED <<now, ttl, competency_cache, class_stats_cache, difficulty_cache,
                   risk_model_cache, disk, HAS_JOBLIB, HAS_SHAP, request, written,
                   observed, op, ret>>

\* the coroutine resumes: _cache_set and the response
CalibrateFinish(t) ==
    /\ tasks[t].kind = "calibrate" /\ tasks[t].pc = "stored"
    /\ difficulty_cache' = cache_set(difficulty_cache, request.questionId,
                                     tasks[t].params, now)
    /\ tasks' = [tasks EXCEPT ![t].pc = "done"]
    /\ op' = [kind |-> "calibrate", task |-> t]
    /\ ret' = CalibrateDifficultyResponse(request.questionId, tasks[t].params)
    /\ UNCHANGED <<now, ttl, competency_cache, class_stats_cache, risk_model_cache,
                   disk, HAS_JOBLIB, HAS_SHAP, request, written, firestore, observed>>

\* where a coroutine is suspended
Suspended == {"store", "stored"}

\* the surrounding request times out or is cancelled while the coroutine is suspended
Abandon(t) ==
    /\ tasks[t].pc \in Suspended
    /\ tasks' = [tasks EXCEPT ![t].pc = "abandoned"]
    /\ op' = [kind |-> "abandon", task |-> t]
    /\ ret' = None
    /\ UNCHANGED <<now, ttl, competency_cache, class_stats_cache, difficulty_cache,
                   risk_model_cache, disk, HAS_JOBLIB, HAS_SHAP, request, written,
                   firestore, observed>>

InitCal ==
    /\ now = 0
    /\ ttl = 1
    /\ competency_cache = EmptyCache
    /\ class_stats_cache = EmptyCache
    /\ difficulty_cache \in {EmptyCache, cache_set(EmptyCache, "q1", PriorParams, 0)}
    /\ risk_model_cache = EmptyCache
    /\ disk = "model_a"
    /\ HAS_JOBLIB = TRUE
    /\ HAS_SHAP = TRUE
    /\ request \in CalRequests
    /\ written = << >>
    /\ firestore \in [db : BOOLEAN, difficulty : {<< >>, [q \in {"q1"} |-> PriorParams]}]
    /\ tasks = <<NewTask("calibrate")>>
    /\ observed = << >>
    /\ op = [kind |-> "init"]
    /\ ret = None

NextCal ==
    \/ CalibrateStart(1)
    \/ \E write_fails \in BOOLEAN : StoreQuestionDifficulty(1, write_fails)
    \/ CalibrateFinish(1)
    \/ Abandon(1)

SpecCal == InitCal /\ [][NextCal]_vars

\* C11: calibrating from an empty list of responses fails with ValueError and
\* leaves the difficulty cache and the persisted parameters of the question as
\* they were before the call
C11_EmptyRejected ==
    (op.kind = "calibrate" /\ request.studentResponses = << >>) =>
        /\ ret = ValueError
        /\ AllCaches = tasks[op.task].before.caches
        /\ firestore.difficulty = tasks[op.task].before.persisted

\* an empty list was rejected while the cache and the store held parameters
C11_Witness ==
    /\ op.kind = "calibrate"
    /\ request.studentResponses = << >>
    /\ ret = ValueError
    /\ firestore.db
    /\ difficulty_cache = cache_set(EmptyCache, "q1", PriorParams, 0)
    /\ "q1" \in DOMAIN firestore.difficulty
    /\ firestore.difficulty["q1"] = PriorParams

\* every response of the request is correct
AllCorrect ==
    /\ request.studentResponses # << >>
    /\ \A i \in DOMAIN request.studentResponses : is_correct(request.studentResponses[i])

\* C12: for a non-empty list the call returns a finite b, between the logits of
\* the clamped rates 0.99 and 0.01; when every response is correct b is
\* ln(0.01/0.99), -4.595, and the label "easy"; the label is easy for b < -1.0,
\* medium for -1.0 <= b < 1.0 and hard for b >= 1.0
C12_ClampedLogit ==
    (op.kind = "calibrate" /\ request.studentResponses # << >>) =>
        /\ ~is_raised(ret)
        /\ ret.difficultyParameter \in -4595..4595
        /\ AllCorrect => ret.difficultyParameter = -4595 /\ ret.difficultyLabel = "easy"
        /\ ret.difficultyLabel = "easy" <=> ret.difficultyParameter < -1000
        /\ ret.difficultyLabel = "medium" <=> ret.difficultyParameter \in -1000..999
        /\ ret.difficultyLabel = "hard" <=> ret.difficultyParameter >= 1000

\* ten correct responses out of ten were calibrated
C12_Witness ==
    /\ op.kind = "calibrate"
    /\ request.studentResponses = TenCorrect
    /\ ret.difficultyParameter = -4595
    /\ ret.successRate = 10000
    /\ ret.difficultyLabel = "easy"

HistoryVersions ==
    LET attempt(topic, score) == CHOOSE a \in AttemptPool : a.topicId = topic /\ a.score = score
        first == <<attempt("Linear Equations", 9), attempt("Quadratic Equations", 5),
                   attempt("Integers", 10)>>
    IN << << >>, first, Append(first, attempt("Functions", 8)) >>

\* the engagement metrics of student s1 in the store, as they grow
EngagementVersions ==
    <<[activeDays |-> 0, totalXP |-> 0, hourlyActivity |-> << >>],
      [activeDays |-> 2, totalXP |-> 50, hourlyActivity |-> [h \in {9} |-> 2]]>>

\* the store before anything is recorded
FirstStore ==
    [db |-> TRUE, history |-> HistoryVersions[1], engagement |-> EngagementVersions[1]]

\* lines 1552-1573 and 1626: what the summary takes from the competency analysis
competency_part(comp_result) ==
    LET count(level) == Cardinality({i \in DOMAIN comp_result.analyses :
                                        comp_result.analyses[i].competencyLevel = level})
    IN [competencyDistribution |->
            [level \in {"beginner", "developing", "proficient", "advanced"} |-> count(level)],
        efficiencyScores |->
            [i \in DOMAIN comp_result.analyses |->
                <<comp_result.analyses[i].topicId, comp_result.analyses[i].efficiencyScore>>],
        status |-> IF comp_result.status = "success" THEN "success" ELSE "limited_data"]

\* lines 1576-1591: the five recommendations, from the history recommend_topics fetched
recommended_part(r) ==
    [i \in DOMAIN r |-> [topicId |-> r[i].topicId, score |-> r[i].recommendationScore,
                         prerequisitesMet |-> r[i].prerequisitesMet]]

\* recommended_part(recommend_topics(h, 5, Today, FALSE).recommendations) for each
\* history h of HistoryVersions, written out: no attempts give the cold start,
\* the attempt at Functions takes Functions out and lets Quadratic Functions in
RecommendedTopics ==
    LET rec(topic, score) == [topicId |-> topic, score |-> score, prerequisitesMet |-> TRUE]
    IN << <<rec("Variables & Expressions", 9500), rec("Integers", 9000),
            rec("Fractions & Decimals", 8500)>>,
          <<rec("Variables & Expressions", 6500), rec("Slope & Rate of Change", 6500),
            rec("Exponents & Powers", 6500), rec("Functions", 6500),
            rec("Pythagorean Theorem", 6500)>>,
          <<rec("Variables & Expressions", 6500), rec("Slope & Rate of Change", 6500),
            rec("Exponents & Powers", 6500), rec("Quadratic Functions", 6500),
            rec("Pythagorean Theorem", 6500)>> >>

\* the written-out recommendations are those recommend_topics computes
RecommendedTopicsAreComputed ==
    \A v \in DOMAIN HistoryVersions :
        RecommendedTopics[v] =
            recommended_part(
                recommend_topics(HistoryVersions[v], 5, Today, FALSE).recommendations)

\* the two parts for each history the store can hold, computed once
SummaryParts ==
    [v \in DOMAIN HistoryVersions |->
        [competency |->
             competency_part(compute_competency_analysis(HistoryVersions[v], None)),
         recommended |-> RecommendedTopics[v]]]

version_of(history) == CHOOSE v \in DOMAIN HistoryVersions : HistoryVersions[v] = history

\* lines 1552-1627: the StudentSummaryResponse built from the three fetched inputs
\* (predictedNextQuizScore, a regression on quiz_history, is left out)
student_summary(quiz_history, engagement, rec_history) ==
    LET c == SummaryParts[version_of(quiz_history)].competency
    IN [studentId |-> "s1",
        competencyDistribution |-> c.competencyDistribution,
        efficiencyScores |-> c.efficiencyScores,
        recommendedTopics |-> SummaryParts[version_of(rec_history)].recommended,
        engagementPatterns |-> engagement,
        status |-> c.status]

\* a quiz attempt of the student is saved
RecordAttempt ==
    /\ version_of(firestore.history) < Len(HistoryVersions)
    /\ firestore' = [firestore EXCEPT
                        !.history = HistoryVersions[version_of(firestore.history) + 1]]
    /\ observed' = Append(observed, [t |-> now, store |-> firestore'])
    /\ op' = [kind |-> "record_attempt"]
    /\ ret' = None
    /\ UNCHANGED <<now, ttl, competency_cache, class_stats_cache, difficulty_cache,
                   risk_model_cache, disk, HAS_JOBLIB, HAS_SHAP, request, written, tasks>>

\* activity of the student is saved
RecordActivity ==
    /\ firestore.engagement = EngagementVersions[1]
    /\ firestore' = [firestore EXCEPT !.engagement = EngagementVersions[2]]
    /\ observed' = Append(observed, [t |-> now, store |-> firestore'])
    /\ op' = [kind |-> "record_activity"]
    /\ ret' = None
    /\ UNCHANGED <<now, ttl, competency_cache, class_stats_cache, difficulty_cache,
                   risk_model_cache, disk, HAS_JOBLIB, HAS_SHAP, request, written, tasks>>

\* the first-writer-wins cache: an entry already there is kept
cache_put_if_absent(cache, key, value, t) ==
    IF key \in DOMAIN cache THEN cache ELSE cache_set(cache, key, value, t)

\* the _cache_set of line 1630
cache_put(cache, key, value, t) == cache_set(cache, key, value, t)

\* where get_student_summary is suspended
Fetching == {"fetch_history", "fetch_engagement", "fetch_again"}

\* lines 1544-1548: the cache lookup; a hit returns the cached summary, a miss
\* suspends in the first fetch
SummaryStart(t) ==
    /\ tasks[t].kind = "summary" /\ tasks[t].pc = "start"
    /\ LET r == cache_get(competency_cache, "summary_s1", ttl, now)
           \* if cached: a summary is an object, which is true; None is on a miss
           cached == "summary_s1" \in DOMAIN r.cache
       IN /\ competency_cache' = r.cache
          /\ IF cached
             THEN /\ tasks' = [tasks EXCEPT ![t] = [kind |-> "summary", pc |-> "done",
                                                    hit |-> TRUE, result |-> r.val]]
                  /\ op' = [kind |-> "get_student_summary", task |-> t]
                  /\ ret' = r.val
             ELSE /\ tasks' = [tasks EXCEPT ![t] = [kind |-> "summary",
                                                    pc |-> "fetch_history"]]
                  /\ UNCHANGED <<op, ret>>
    /\ UNCHANGED <<now, ttl, class_stats_cache, difficulty_cache, risk_model_cache, disk,
                   HAS_JOBLIB, HAS_SHAP, request, written, firestore, observed>>

\* line 1548: the quiz history arrives; the coroutine suspends in the next fetch
FetchHistory(t) ==
    /\ tasks[t].kind = "summary" /\ tasks[t].pc = "fetch_history"
    /\ tasks' = [tasks EXCEPT ![t] = [kind |-> "summary", pc |-> "fetch_engagement",
                                      quiz_history |-> firestore.history]]
    /\ UNCHANGED <<now, ttl, competency_cache, class_stats_cache, difficulty_cache,
                   risk_model_cache, disk, HAS_JOBLIB, HAS_SHAP, request, written,
                   firestore, observed, op, ret>>

\* line 1549: the engagement metrics arrive; lines 1552-1578 run up to the fetch
\* inside recommend_topics
FetchEngagement(t) ==
    /\ tasks[t].kind = "summary" /\ tasks[t].pc = "fetch_engagement"
    /\ tasks' = [tasks EXCEPT ![t] = [kind |-> "summary", pc |-> "fetch_again",
                                      quiz_history |-> tasks[t].quiz_history,
                                      engagement |-> firestore.engagement]]
    /\ UNCHANGED <<now, ttl, competency_cache, class_stats_cache, difficulty_cache,
                   risk_model_cache, disk, HAS_JOBLIB, HAS_SHAP, request, written,
                   firestore, observed, op, ret>>

\* line 1370: recommend_topics gets the quiz history it fetched itself; the rest
\* of get_student_summary runs to the _cache_set of line 1630 and returns
SummaryFinish(t) ==
    /\ tasks[t].kind = "summary" /\ tasks[t].pc = "fetch_again"
    /\ LET result == student_summary(tasks[t].quiz_history, tasks[t].engagement,
                                     firestore.history)
       IN /\ competency_cache' = cache_put(competency_cache, "summary_s1", result, now)
          /\ written' = DictPut(written, <<"competency", "summary_s1">>,
                                [ts |-> now, val |-> result, by |-> t])
          /\ tasks' = [tasks EXCEPT ![t] = [kind |-> "summary", pc |-> "done",
                                            hit |-> FALSE, result |-> result,
                                            raced |-> \E u \in DOMAIN tasks \ {t} :
                                                         tasks[u].pc \in Fetching,
                                            quiz_history |-> tasks[t].quiz_history,
                                            engagement |-> tasks[t].engagement,
                                            rec_history |-> firestore.history]]
          /\ op' = [kind |-> "get_student_summary", task |-> t]
          /\ ret' = result
    /\ UNCHANGED <<now, ttl, class_stats_cache, difficulty_cache, risk_model_cache, disk,
                   HAS_JOBLIB, HAS_SHAP, request, firestore, observed>>

InitSummary ==
    /\ now = 0
    /\ ttl \in 1..MaxTTL
    /\ competency_cache = EmptyCache
    /\ class_stats_cache = EmptyCache
    /\ difficulty_cache = EmptyCache
    /\ risk_model_cache = EmptyCache
    /\ disk = "model_a"
    /\ HAS_JOBLIB = TRUE
    /\ HAS_SHAP = TRUE
    /\ request = None
    /\ written = << >>
    /\ firestore = FirstStore
    /\ tasks = <<NewTask("summary"), NewTask("summary")>>
    /\ observed = << >>
    /\ op = [kind |-> "init"]
    /\ ret = None

NextSummary ==
    \/ \E t \in DOMAIN tasks :
          SummaryStart(t) \/ FetchHistory(t) \/ FetchEngagement(t) \/ SummaryFinish(t)
    \/ RecordAttempt
    \/ RecordActivity
    \/ Tick
    \/ RefreshAllCaches

SpecSummary == InitSummary /\ [][NextSummary]_vars

(***************************************************************************)
(* get_class_insights.  The calls of get_class_insights and of             *)
(* get_student_summary are made one after another, each running to its     *)
(* end; the class has the one student s1, whose activity is written to the *)
(* store by other parties.                                                 *)
(***************************************************************************)

\* how far the clock runs and the largest TTL
MaxClassTime == 4
MaxClassTTL == 3

\* student_ids after lines 1640-1658: empty without a database, without the
\* class document or after an exception, else the students of the class
Rosters == {<< >>, <<"s1">>}

\* the store before any activity is recorded: three attempts, no activity
ClassStore ==
    [db |-> TRUE, history |-> HistoryVersions[2], engagement |-> EngagementVersions[1]]

\* _generate_demo_class_insights(request)
demo_class_insights ==
    [teacherId |-> "t1", engagementPatterns |-> [h \in {9, 14} |-> 30],
     interventionRecommendations |-> <<"demo_student_1">>, totalStudents |-> 30,
     status |-> "demo_data"]

RECURSIVE hourly_engagement(_, _)
\* get_class_insights: hourly_engagement[hour], summed over the summaries
hourly_engagement(summaries, h) ==
    IF summaries = << >>
    THEN 0
    ELSE (IF h \in DOMAIN Head(summaries).engagementPatterns.hourlyActivity
          THEN Head(summaries).engagementPatterns.hourlyActivity[h]
          ELSE 0)
         + hourly_engagement(Tail(summaries), h)

\* lines 1661-1744: the ClassInsightsResponse aggregated from the summaries of
\* the students (the velocities and the predicted scores, which the summaries
\* of the model do not carry, are left out; the predicted score of every
\* history of HistoryVersions is None or above 50)
class_insights(student_ids, summaries) ==
    LET Struggles(summary) == summary.competencyDistribution.beginner >= 2
        struggling == SelectSeq(summaries, Struggles)
        hours == UNION {DOMAIN summaries[i].engagementPatterns.hourlyActivity :
                            i \in DOMAIN summaries}
    IN [teacherId |-> "t1",
        engagementPatterns |-> [h \in hours |-> hourly_engagement(summaries, h)],
        interventionRecommendations |->
            [i \in DOMAIN struggling |-> struggling[i].studentId],
        totalStudents |-> Len(student_ids),
        status |-> "success"]

\* get_student_summary("s1") at time t finds the summary in the cache
summary_cached(cache, t_ttl, t) ==
    "summary_s1" \in DOMAIN cache_get(cache, "summary_s1", t_ttl, t).cache

\* get_student_summary("s1") run to its end at time t: the summary cache it
\* leaves, which holds the summary it returns, cached before or computed now
summary_call(cache, store, t_ttl, t) ==
    IF summary_cached(cache, t_ttl, t)
    THEN cache
    ELSE cache_put(cache_get(cache, "summary_s1", t_ttl, t).cache, "summary_s1",
                   student_summary(store.history, store.engagement, store.history), t)

GetStudentSummary ==
    /\ competency_cache' = summary_call(competency_cache, firestore, ttl, now)
    /\ op' = [kind |-> "get_student_summary",
              hit |-> summary_cached(competency_cache, ttl, now)]
    /\ ret' = competency_cache'["summary_s1"].val
    /\ UNCHANGED <<now, ttl, class_stats_cache, difficulty_cache, risk_model_cache, disk,
                   HAS_JOBLIB, HAS_SHAP, request, written, firestore, tasks, observed>>

\* get_class_insights(request) for teacher t1 and class c1: the cached result, the
\* demo data for an empty class, or the aggregate of the students' summaries,
\* which is cached
GetClassInsights(student_ids) ==
    /\ LET cached == cache_get(class_stats_cache, "class_t1_c1", ttl, now)
       IN IF "class_t1_c1" \in DOMAIN cached.cache
          THEN /\ class_stats_cache' = cached.cache
               /\ UNCHANGED competency_cache
               /\ op' = [kind |-> "get_class_insights", hit |-> TRUE]
               /\ ret' = cached.val
          ELSE IF student_ids = << >>
          THEN /\ class_stats_cache' = cached.cache
               /\ UNCHANGED competency_cache
               /\ op' = [kind |-> "get_class_insights", hit |-> FALSE]
               /\ ret' = demo_class_insights
          ELSE /\ competency_cache' = summary_call(competency_cache, firestore, ttl, now)
               /\ ret' = class_insights(student_ids,
                                        <<competency_cache'["summary_s1"].val>>)
               /\ class_stats_cache' =
                      cache_set(cached.cache, "class_t1_c1", ret', now)
               /\ op' = [kind |-> "get_class_insights", hit |-> FALSE]
    /\ UNCHANGED <<now, ttl, difficulty_cache, risk_model_cache, disk, HAS_JOBLIB,
                   HAS_SHAP, request, written, firestore, tasks, observed>>

\* time.time() moves on, as far as MaxClassTime
ClassTick ==
    /\ now < MaxClassTime
    /\ now' = now + 1
    /\ op' = [kind |-> "tick"]
    /\ ret' = None
    /\ UNCHANGED <<ttl, competency_cache, class_stats_cache, difficulty_cache,
                   risk_model_cache, disk, HAS_JOBLIB, HAS_SHAP, request, written,
                   firestore, tasks, observed>>

InitClass ==
    /\ now = 0
    /\ ttl \in 1..MaxClassTTL
    /\ competency_cache = EmptyCache
    /\ class_stats_cache = EmptyCache
    /\ difficulty_cache = EmptyCache
    /\ risk_model_cache = EmptyCache
    /\ disk = "model_a"
    /\ HAS_JOBLIB = TRUE
    /\ HAS_SHAP = TRUE
    /\ request = None
    /\ written = << >>
    /\ firestore = ClassStore
    /\ tasks = << >>
    /\ observed = << >>
    /\ op = [kind |-> "init"]
    /\ ret = None

NextClass ==
    \/ GetStudentSummary
    \/ \E student_ids \in Rosters : GetClassInsights(student_ids)
    \/ RecordActivity
    \/ ClassTick

SpecClass == InitClass /\ [][NextClass]_vars

\* the cache slot of the summary of student s1
SummarySlot == <<"competency", "summary_s1">>

\* C13: however two get_student_summary requests for one student interleave at
\* their fetches, neither fails, each one that computes returns the summary of
\* the inputs it fetched itself, and the entry in the cache is the result, whole,
\* of the request that wrote last
C13_LastWriterWins ==
    /\ \A t \in DOMAIN tasks :
          /\ tasks[t].pc # "raised"
          /\ (tasks[t].pc = "done" /\ ~tasks[t].hit) =>
                 tasks[t].result = student_summary(tasks[t].quiz_history,
                                                   tasks[t].engagement,
                                                   tasks[t].rec_history)
    /\ "summary_s1" \in DOMAIN competency_cache =>
          /\ SummarySlot \in DOMAIN written
          /\ ~tasks[written[SummarySlot].by].hit
          /\ competency_cache["summary_s1"] =
                 [ts |-> written[SummarySlot].ts,
                  val |-> tasks[written[SummarySlot].by].result]

\* both requests missed the cache and computed, one finished while the other
\* was suspended, their results differ, and the later one is in the cache
C13_Witness ==
    /\ \A t \in DOMAIN tasks : tasks[t].pc = "done" /\ ~tasks[t].hit
    /\ tasks[1].result # tasks[2].result
    /\ tasks[1].raced
    /\ written[SummarySlot].by = 2
    /\ competency_cache["summary_s1"].val = tasks[2].result

\* C18: a summary returned by get_student_summary is the summary of the quiz
\* history and the engagement data the store held at one instant no more than
\* the TTL before the return; a cached summary is returned only within the TTL
\* of its write
C18_SnapshotWithinTtl ==
    op.kind = "get_student_summary" =>
        /\ \E i \in 0..Len(observed) :
              LET held == IF i = 0 THEN FirstStore ELSE observed[i].store
                  until == IF i < Len(observed) THEN observed[i + 1].t ELSE now
              IN /\ until >= now - ttl
                 /\ ret = student_summary(held.history, held.engagement, held.history)
        /\ tasks[op.task].hit =>
              /\ "summary_s1" \in DOMAIN competency_cache
              /\ now - competency_cache["summary_s1"].ts < ttl
              /\ ret = competency_cache["summary_s1"].val

\* the level the thresholds give a score of h hundredths: beginner [0, 40),
\* developing [40, 65), proficient [65, 85), advanced [85, 100]
LevelsOf(h) ==
    {l \in {"beginner", "developing", "proficient", "advanced"} :
        \/ l = "beginner" /\ 0 <= h /\ h < 4000
        \/ l = "developing" /\ 4000 <= h /\ h < 6500
        \/ l = "proficient" /\ 6500 <= h /\ h < 8500
        \/ l = "advanced" /\ 8500 <= h /\ h <= 10000}

\* C21: the competencyLevel of every topic is the level of its averageAccuracy,
\* whatever its efficiencyScore; _get_competency_level gives every score from 0
\* to 100, the bounds 40, 65, 85 and 100 among them, the one level whose range
\* holds it
C21_LevelOfAccuracy ==
    /\ (op.kind = "compute_competency_analysis" /\ ret.status = "success") =>
          \A i \in DOMAIN ret.analyses :
              LevelsOf(ret.analyses[i].averageAccuracy) = {ret.analyses[i].competencyLevel}
    /\ op.kind = "_get_competency_level" =>
          LevelsOf(50 * request.score[1]) = {ret.level}

\* a topic whose accuracy is developing and whose efficiency lies in the range of
\* proficient came back as developing
C21_Witness ==
    /\ op.kind = "compute_competency_analysis"
    /\ ret.status = "success"
    /\ \E i \in DOMAIN ret.analyses :
          /\ ret.analyses[i].competencyLevel = "developing"
          /\ ret.analyses[i].averageAccuracy = 5000
          /\ LevelsOf(ret.analyses[i].efficiencyScore) = {"proficient"}

\* C22: the masteryPercentage of every topic is 100 times the number of its
\* attempts with attemptsCount <= 1 that were correct over the number of its
\* attempts with attemptsCount <= 1; an attempt with attemptsCount > 1 counts
\* in neither
C22_MasteryOfFirstAttempts ==
    (op.kind = "compute_competency_analysis" /\ ret.status = "success") =>
        \A i \in DOMAIN ret.analyses :
            LET entries == topic_entries(request.quiz_history, ret.analyses[i].topicId)
                first == {k \in DOMAIN entries : entries[k].attempts <= 1}
                first_correct == {k \in first : entry_correct(entries[k])}
            IN first # {} =>
                   ret.analyses[i].masteryPercentage
                       = Round2(Rat(100 * Cardinality(first_correct), Cardinality(first)))

\* recommend_topics: scored_topics as the loop over all_topics leaves it, for
\* the history of the request
ScoredTopics ==
    score_topics(RecAnalyses, all_topics(RecAnalyses, op.reversed), Today)

\* the topics the history of the request has an attempt at
AttemptedTopics == {request.quiz_history[i].topicId : i \in DOMAIN request.quiz_history}

\* the topics the dependency graph refers to, as a key or as a prerequisite
ReferencedTopics == GraphTopics \cup UNION {Range(TOPIC_PREREQUISITES[t]) : t \in GraphTopics}

\* C23: for every non-empty history the topics recommend_topics scores are the
\* attempted topics and the topics of the dependency graph, less the topics at
\* level advanced; every attempted topic that is not advanced is scored, also
\* when the history has fewer than 3 attempts
C23_CandidateSet ==
    (op.kind = "recommend_topics" /\ request.quiz_history # << >>) =>
        {ScoredTopics[i].topicId : i \in DOMAIN ScoredTopics}
            = (AttemptedTopics \cup ReferencedTopics)
              \ {RecAnalyses[j].topicId : j \in {k \in DOMAIN RecAnalyses :
                                                   RecAnalyses[k].competencyLevel = "advanced"}}

\* the total score of a topic with unmet prerequisites, before the factor 0.6:
\* 0.4 * weakness + 0.3 * prerequisite average + 0.2 * recency, no bonus
TotalUnmet(analyses, topic) ==
    LET c == topic_competency(analyses, topic)
    IN RatAdd(RatAdd(RatScale(weakness_score(IF c = << >> THEN "not_attempted"
                                                          ELSE c[1].competencyLevel,
                                             IF c = << >> THEN 0
                                                          ELSE c[1].averageAccuracy),
                              4, 10),
                     RatScale(prereq_avg(analyses, topic), 3, 10)),
              Rat(Min2(days_since(c, Today), 60) * 2, 10))

\* C24: the recommendations are in non-increasing order of recommendationScore
\* and at most numRecommendations; they are scored topics, and no scored topic
\* left out has a score above that of a returned one; a topic of the graph or
\* of the analyses that is not advanced is scored whether its prerequisites
\* are met or not, and unmet prerequisites multiply its score by 0.6
C24_TopScoresInOrder ==
    op.kind = "recommend_topics" =>
        /\ Len(ret.recommendations) <= request.numRecommendations
        /\ \A i \in 1..Len(ret.recommendations) - 1 :
              ret.recommendations[i].recommendationScore
                  >= ret.recommendations[i + 1].recommendationScore
        /\ ret.status = "success" =>
              LET scored == ScoredTopics
                  analyses == RecAnalyses
                  returned == Range(ret.recommendations)
                  lowest == ret.recommendations[Len(ret.recommendations)].recommendationScore
              IN /\ Len(ret.recommendations) = Min2(request.numRecommendations, Len(scored))
                 /\ returned \subseteq Range(scored)
                 /\ \A i \in DOMAIN scored :
                       scored[i] \in returned \/ scored[i].recommendationScore <= lowest
                 /\ \A t \in ReferencedTopics \cup Range(analysed_topics(analyses)) :
                       (\E i \in DOMAIN scored : scored[i].topicId = t)
                           <=> ~\E j \in DOMAIN analyses :
                                   /\ analyses[j].topicId = t
                                   /\ analyses[j].competencyLevel = "advanced"
                 /\ \A i \in DOMAIN scored :
                       ~scored[i].prerequisitesMet =>
                           scored[i].recommendationScore
                               = Round2(RatScale(TotalUnmet(analyses, scored[i].topicId), 6, 10))

\* 20 of more scored topics came back, not all with one score, the last of them
\* a topic with unmet prerequisites; another such topic was left out
C24_Witness ==
    /\ op.kind = "recommend_topics"
    /\ ret.status = "success"
    /\ Len(ret.recommendations) = 20
    /\ ret.recommendations[1].recommendationScore
           > ret.recommendations[20].recommendationScore
    /\ ~ret.recommendations[20].prerequisitesMet
    /\ LET scored == ScoredTopics
       IN /\ Len(scored) > 20
          /\ \E i \in DOMAIN scored :
                /\ ~scored[i].prerequisitesMet
                /\ scored[i] \notin Range(ret.recommendations)

\* the averageAccuracy the analyses give topic p, 0 without one
AccuracyOf(analyses, p) ==
    IF \E j \in DOMAIN analyses : analyses[j].topicId = p
    THEN (CHOOSE a \in Range(analyses) : a.topicId = p).averageAccuracy
    ELSE 0

\* C25: a scored topic, returned or not, has prerequisitesMet exactly when every
\* prerequisite of its topic has averageAccuracy >= 50, a prerequisite never
\* attempted counting as 0; a topic without prerequisites has prerequisitesMet
\* and the prerequisite average 100, which gives a topic never attempted the
\* score 0.4 * 70 + 0.3 * 100 + 0.2 * 30 + 1 = 65
C25_PrerequisitesMet ==
    (op.kind = "recommend_topics" /\ ret.status = "success") =>
        LET scored == ScoredTopics
            analyses == RecAnalyses
        IN \A r \in Range(scored) \cup Range(ret.recommendations) :
               LET prereqs == IF r.topicId \in DOMAIN TOPIC_PREREQUISITES
                              THEN Range(TOPIC_PREREQUISITES[r.topicId])
                              ELSE {}
               IN /\ r.prerequisitesMet
                         <=> \A p \in prereqs : AccuracyOf(analyses, p) >= 5000
                  /\ prereqs = {} =>
                        /\ r.prerequisitesMet
                        /\ prereq_avg(analyses, r.topicId) = <<100, 1>>
                        /\ r.currentCompetency = "not_attempted" =>
                               r.recommendationScore = 6500

\* Quadratic Functions was scored with its prerequisites met, one of them at
\* exactly 50; a topic with an unmet prerequisite was scored, and a topic that
\* has no prerequisite came back
C25_Witness ==
    /\ op.kind = "recommend_topics"
    /\ ret.status = "success"
    /\ AccuracyOf(RecAnalyses, "Quadratic Equations") = 5000
    /\ \E r \in Range(ScoredTopics) :
          r.topicId = "Quadratic Functions" /\ r.prerequisitesMet
    /\ \E r \in Range(ScoredTopics) : ~r.prerequisitesMet
    /\ \E k \in DOMAIN ret.recommendations :
          /\ ret.recommendations[k].topicId \notin DOMAIN TOPIC_PREREQUISITES
          /\ ret.recommendations[k].currentCompetency = "not_attempted"

\* C28: every question select_adaptive_quiz returns, for numQuestions in 1..50
\* and an ability estimate in [-4, 4], has the difficultyLabel of its
\* estimatedDifficulty b: easy exactly when b < -1.0, medium when
\* -1.0 <= b < 1.0, hard when b >= 1.0, also after the label was reassigned
\* because its bucket was full
C28_LabelOfDifficulty ==
    op.kind = "select_adaptive_quiz" =>
        \A i \in DOMAIN ret.selectedQuestions :
            LET b == ret.selectedQuestions[i].estimatedDifficulty
                label == ret.selectedQuestions[i].difficultyLabel
            IN /\ label = "easy" <=> b < -10
               /\ label = "medium" <=> (-10 <= b /\ b < 10)
               /\ label = "hard" <=> b >= 10

\* C29: an attempt that carries no correct flag is handed to the ability
\* estimation as correct exactly when its score / total >= 0.5, which is also
\* the correctness averageAccuracy counts it with
C29_ObservationFromScore ==
    op.kind = "compute_competency_analysis" =>
        \A i \in DOMAIN op.all_responses_for_irt :
            LET o == op.all_responses_for_irt[i]
            IN o.entry.correct = << >> =>
                   /\ o.correct <=> 2 * o.entry.score >= o.entry.total
                   /\ o.correct <=> entry_correct(o.entry)

\* C26: the discrimination parameter lies in [0.3, 3.0]; it is 1.0 for fewer
\* than 4 responses; for 4 or more it is clamp(0.3, 3.0, (p_fast - p_slow) * 3
\* + 1) rounded to 3 places, p_fast and p_slow being the shares of correct
\* responses in the two halves the time spent splits the responses into (stated
\* for the lists a time splits into two groups of equal size)
C26_Discrimination ==
    (op.kind = "calibrate" /\ ~is_raised(ret)) =>
        LET rs == request.studentResponses
            a == ret.discriminationParameter
        IN /\ 300 <= a /\ a <= 3000
           /\ Len(rs) < 4 => a = 1000
           /\ Len(rs) >= 4 =>
                 \A v \in {rs[i].timeSpent : i \in DOMAIN rs} :
                     LET fast == {i \in DOMAIN rs : rs[i].timeSpent <= v}
                         slow == {i \in DOMAIN rs : rs[i].timeSpent > v}
                         p_fast == Rat(Cardinality({i \in fast : is_correct(rs[i])}),
                                       Cardinality(fast))
                         p_slow == Rat(Cardinality({i \in slow : is_correct(rs[i])}),
                                       Max2(Cardinality(slow), 1))
                         diff == RatAdd(p_fast, <<-p_slow[1], p_slow[2]>>)
                         raw == RatAdd(<<3 * diff[1], diff[2]>>, <<1, 1>>)
                         clamped == RatMax(<<3, 10>>, RatMin(<<3, 1>>, raw))
                     IN Cardinality(fast) = Cardinality(slow) =>
                            a = RoundHalfEven(1000 * clamped[1], clamped[2])

\* High < Medium < Low
LevelRank(level) == CASE level = "High" -> 0 [] level = "Medium" -> 1 [] level = "Low" -> 2

\* the request with one of the four base features set to v
WithFeature(feature, v) ==
    CASE feature = "engagementScore" -> [request EXCEPT !.engagementScore = v]
      [] feature = "avgQuizScore" -> [request EXCEPT !.avgQuizScore = v]
      [] feature = "attendance" -> [request EXCEPT !.attendance = v]
      [] feature = "assignmentCompletion" -> [request EXCEPT !.assignmentCompletion = v]

BaseFeatures == {"engagementScore", "avgQuizScore", "attendance", "assignmentCompletion"}

\* C30: _rule_based_risk is monotone in each of the four base features: with
\* one of them higher and everything else equal the riskLevel is the same or a
\* better one (High < Medium < Low); the probabilities sum to 1, riskLevel is
\* the label of the largest of them and confidence is that probability
C30_MonotoneAndConsistent ==
    op.kind = "rule_based" =>
        /\ \A f \in BaseFeatures : \A v \in request[f]..100 :
              LevelRank(rule_based_risk(WithFeature(f, v)).riskLevel) >= LevelRank(ret.riskLevel)
        /\ ret.probabilities.High + ret.probabilities.Medium + ret.probabilities.Low = 1000
        /\ \A l \in DOMAIN ret.probabilities :
              l # ret.riskLevel => ret.probabilities[l] < ret.probabilities[ret.riskLevel]
        /\ ret.confidence = ret.probabilities[ret.riskLevel]

\* a request scored Medium under a penalty that a higher quiz score alone takes
\* to Low and a higher attendance alone leaves at Medium
C30_Witness ==
    /\ op.kind = "rule_based"
    /\ ret.riskLevel = "Medium"
    /\ OrZero(request.consecutiveAbsences) >= 3
    /\ rule_based_risk(WithFeature("avgQuizScore", 100)).riskLevel = "Low"
    /\ request.attendance < 100
    /\ rule_based_risk(WithFeature("attendance", request.attendance + 1)).riskLevel = "Medium"

\* C27: a result of get_class_insights with status "success" is the aggregate of
\* the students' data as the store held it at an instant no more than the TTL
\* before the return, whatever calls of get_student_summary and
\* get_class_insights came before; no result with status "demo_data" is in the
\* class-stats cache
C27_ClassDataWithinTtl ==
    /\ (op.kind = "get_class_insights" /\ ret.status = "success") =>
          \E i \in 0..Len(observed) :
              LET held == IF i = 0 THEN ClassStore ELSE observed[i].store
                  until == IF i < Len(observed) THEN observed[i + 1].t ELSE now
              IN /\ until >= now - ttl
                 /\ ret = class_insights(<<"s1">>,
                                         <<student_summary(held.history, held.engagement,
                                                           held.history)>>)
    /\ \A k \in DOMAIN class_stats_cache : class_stats_cache[k].val.status # "demo_data"

====
